---- MODULE Spec2Model ----
(***************************************************************************)
(* usim800: host-side driver of a SIM800 modem over a serial link.         *)
(*                                                                         *)
(* Spec     : threads and processes using the serial port through          *)
(*            CombinedLock (locks.py) and the locked operations of         *)
(*            ATChannel (at.py), HTTP (http.py) and SMS (sms.py).          *)
(* SpecAT   : one call of ATChannel.command, the reply read line by line   *)
(*            (_read_until_terminal, _raise_if_error, retries).            *)
(* SpecHTTP : one HTTP request (get, post, head), the +HTTPACTION URC and  *)
(*            the body read of _read_http_body, byte by byte.              *)
(* SpecSession : sessions one after the other (session.py), command by    *)
(*            command, against a modem that keeps its state.               *)
(* SpecConc : two threads making HTTP requests through one HTTP object.   *)
(* SpecSMS  : one call of SMS.send (sms.py), write by write.               *)
(* SpecPure : the parsers of +CMGL and +CSQ replies (sms.py, network.py),  *)
(*            and readAll on the reply command() cuts for it.              *)
(* SpecOps  : the blocking operations against the clock: command,          *)
(*            wait_for_urc, the wait loops, attach, wait_registered and    *)
(*            the best-effort operations; SpecOpsFair adds the scheduling  *)
(*            assumptions.                                                 *)
(* SpecReg  : Network.wait_registered, poll by poll.                       *)
(* SpecLate : calls of ATChannel.command against a modem whose replies     *)
(*            may arrive after the deadline, each line with the write it   *)
(*            answers.                                                     *)
(***************************************************************************)
EXTENDS Integers, Sequences, FiniteSets, TLC

VARIABLES
    \* ---- CombinedLock and the threads that use it (Spec) ----
    tlockOwner,   \* per process: the thread owning CombinedLock._tlock (RLock)
    tlockCount,   \* per process: the RLock's recursion count
    fdAttr,       \* per process: CombinedLock._fd
    flockHolder,  \* the open file description holding LOCK_EX on the lockfile
    openFds,      \* open file descriptions of the lockfile
    useFile,      \* per process: lockfile configured and fcntl available
    procOf,       \* per thread: the process it runs in
    pc,           \* per thread: position inside acquire()/release or the body
    op,           \* per thread: the operation it runs
    ip,           \* per thread: index of the next step of the operation
    scope,        \* per thread: number of acquire() scopes it is inside
    exc,          \* per thread: an exception is propagating
    attempt,      \* per thread: command()'s loop variable
    busy,         \* per thread: first byte written, last read not yet ended
    io,           \* the last access to the serial port
    \* ---- one call of ATChannel.command (SpecAT) ----
    aCmd,         \* cmd, stripped
    aExpectOk,    \* expect_ok
    aWake,        \* wake_if_needed
    aRetries,     \* retries
    aAttempt,     \* attempt
    rx,           \* the lines the modem sends, not yet read
    aLines,       \* _read_until_terminal: lines
    aRaw,         \* _read_until_terminal: raw
    aEcho,        \* _read_until_terminal: echo_filtered
    aPc,          \* position inside command()
    aWire,        \* the writes to the serial port, in order
    aTimedOut,    \* number of attempts ended by ATTimeoutError
    aLocked,      \* command() is inside "with self.lock.acquire()"
    aHolds,       \* number of times command() entered that with block
    aResult,      \* what command() returned or raised
    \* ---- one HTTP request: get(), post() or head() (SpecHTTP) ----
    hMethod,      \* 0 = GET, 1 = POST, 2 = HEAD
    hTry,         \* retry_on_http_error: attempt
    hPc,          \* position inside the request
    hActions,     \* number of AT+HTTPACTION commands sent
    hStatus,      \* status of the +HTTPACTION URC
    hLength,      \* length of the +HTTPACTION URC
    hBody,        \* the body the modem holds
    hStream,      \* the bytes the modem sends after AT+HTTPREAD, not yet read
    hRaw,         \* _read_http_body: raw
    hBodyStart,   \* _read_http_body: body_start
    hExpired,     \* the deadline of _read_http_body has passed
    hResult,      \* what the request returned or raised
    hLog,         \* the attempts of the request that have ended, in order
    hEvents,      \* the writes of the request and the sleeps of its wrapper
    hPrompt,      \* the bytes the modem sends after AT+HTTPDATA, not yet read
    hSeen,        \* DOWNLOAD was in a chunk read in this attempt
    hGot,         \* post(): got_download
    hRecv,        \* history: the bytes read since AT+HTTPDATA was written
    \* ---- sessions on one device (SpecSession) ----
    sPhase,       \* out of a session, in __enter__, in the body, in __exit__
    sStep,        \* index of the command __enter__ or __exit__ is at
    sTry,         \* command(): attempt
    sPolls,       \* failed turns of the polling loop the session is in
    sKeep,        \* cfg.keep_bearer_open
    sVia,         \* entered by a with statement or by sim800.session()
    sRx,          \* the lines the modem has sent that were not read
    sLog,         \* the commands the session has sent, in order (one
                  \* entry for the successive attempts of a command)
    sOk,          \* the steps of __enter__ that succeeded
    sSwallowed,   \* the steps of __enter__ whose exception was swallowed
    sRaisedAt,    \* the step at which __enter__ raised, 0 when it did not
    sOutcome,     \* __enter__ returned ("entered") or raised
    sBodyExc,     \* the body of the with statement raised
    sExitRaised,  \* __exit__ raised
    sCount,       \* number of sessions begun
    mHttp,        \* modem: the HTTP service is initialised
    mBearer,      \* modem: the bearer is open
    mGood,        \* modem: responsive and registered during this session
    \* ---- two concurrent callers of HTTP.get / HTTP.post (SpecConc) ----
    qMethod,      \* per caller: 0 = get(), 1 = post()
    qUrl,         \* per caller: url
    qPc,          \* per caller: position inside the request
    qStatus,      \* per caller: status of the URC it read
    qLen,         \* per caller: length of the URC it read
    qResult,      \* per caller: what the request returned or raised
    dUrl,         \* modem: the URL parameter
    dUp,          \* modem: the data uploaded by HTTPDATA
    dFetch,       \* modem: the request under way
    dData,        \* modem: the answer it holds for AT+HTTPREAD
    cRx,          \* the URC lines the modem has sent, not yet read
    \* ---- one call of SMS.send (SpecSMS) ----
    smsNumber,    \* number, as code points
    smsText,      \* text, as code points
    smsPc,        \* position inside send()
    smsUcs2,      \* use_ucs2
    smsNumberToSend, \* number_to_send
    smsTextBytes, \* text_bytes
    smsWire,      \* the writes to the serial port, in order
    smsHold,      \* number of lock holds entered so far
    smsPrompt,    \* the bytes the modem sends after AT+CMGS, not yet read
    smsGot,       \* '>' was in a chunk read
    smsFinal,     \* the final result the modem sent after the body
    smsExc,       \* the exception trapped by send()
    smsResult,    \* what send() returned
    \* ---- the parsers of +CMGL and +CSQ replies (SpecPure) ----
    pR,           \* the response to AT+CMGL as text
    pParsed,      \* _parse_cmgl_response(R)
    pWire,        \* the parsed entries written back in the wire grammar
    pReparsed,    \* _parse_cmgl_response of that text
    pPc,          \* position in parse, serialize, parse
    gIn,          \* the signal quality the modem reports
    gLine,        \* the +CSQ: line of its reply
    gRssi,        \* SignalQuality.rssi
    gBer,         \* SignalQuality.ber
    gBars,        \* SignalQuality.bars()
    gPc,          \* position in get_signal, bars
    \* ---- the blocking operations against the clock (SpecOps) ----
    oOp,          \* the blocking operation called
    oArgs,        \* its arguments (timeout_s, retries, expect_ok)
    oPc,          \* position in the operation
    oNow,         \* time.time(), in seconds since the call
    oDeadline,    \* deadline of the operation's own loop
    oWake,        \* end of the time.sleep(1.0) between two polls
    oPhase,       \* the loop of _read_http_body (1: marker, 2: body)
    oIter,        \* history: one entry per iteration of a poll loop
    oSaw,         \* history: a non-terminal line or chunk was read
    oResult,      \* "returned" or the exception raised
    oLock,        \* holder of the modem lock
    cPc,          \* position in the command() or _read_until_terminal under way
    cArgs,        \* its arguments
    cHeld,        \* the caller holds the lock (call of _read_until_terminal)
    cAttempt,     \* attempt of command()
    cDeadline,    \* deadline of _read_until_terminal
    cMatch,       \* the awaited data line is among the lines read
    cOut,         \* outcome of the command
    \* ---- Network.wait_registered, poll by poll (SpecReg) ----
    wGprs,        \* wait_registered(gprs=...)
    wTimeout,     \* wait_registered(timeout_s=...)
    wNow,         \* time.time(), in seconds since the call
    wPc,          \* position in wait_registered
    wCmds,        \* history: the commands sent
    wLast,        \* history: the outcome of the last poll
    wFailed,      \* history: a poll has failed or shown no registration
    wResult,      \* "returned" or the exception raised
    \* ---- calls of ATChannel.command and the writes the replies answer (SpecLate) ----
    lCall,        \* number of calls of command() made
    lRetries,     \* command(retries=...)
    lAttempt,     \* attempt
    lPc,          \* position inside command()
    lSent,        \* number of commands written to the modem
    lOwn,         \* the number of the write of this attempt
    lModem,       \* lines the modem has produced and not yet delivered, each with the write it answers
    lIn,          \* lines in the serial input, each with the write it answers
    lLines,       \* _read_until_terminal: lines, each with the write it answers
    lResp         \* what command() returned or raised last

lockVars == <<tlockOwner, tlockCount, fdAttr, flockHolder, openFds, useFile,
              procOf, pc, op, ip, scope, exc, attempt, busy, io>>

atVars == <<aCmd, aExpectOk, aWake, aRetries, aAttempt, rx, aLines, aRaw, aEcho,
            aPc, aWire, aTimedOut, aLocked, aHolds, aResult>>

httpVars == <<hMethod, hTry, hPc, hActions, hStatus, hLength, hBody, hStream,
              hRaw, hBodyStart, hExpired, hResult, hLog, hEvents, hPrompt,
              hSeen, hGot, hRecv>>

sessVars == <<sPhase, sStep, sTry, sPolls, sKeep, sVia, sRx, sLog, sOk,
              sSwallowed, sRaisedAt, sOutcome, sBodyExc, sExitRaised, sCount,
              mHttp, mBearer, mGood>>

concVars == <<qMethod, qUrl, qPc, qStatus, qLen, qResult, dUrl, dUp,
              dFetch, dData, cRx>>

smsVars == <<smsNumber, smsText, smsPc, smsUcs2, smsNumberToSend,
             smsTextBytes, smsWire, smsHold, smsPrompt, smsGot, smsFinal,
             smsExc, smsResult>>

pureVars == <<pR, pParsed, pWire, pReparsed, pPc, gIn, gLine, gRssi, gBer,
              gBars, gPc>>

opsVars == <<oOp, oArgs, oPc, oNow, oDeadline, oWake, oPhase, oIter, oSaw,
             oResult, oLock, cPc, cArgs, cHeld, cAttempt, cDeadline,
             cMatch, cOut>>

regVars == <<wGprs, wTimeout, wNow, wPc, wCmds, wLast, wFailed, wResult>>

lateVars == <<lCall, lRetries, lAttempt, lPc, lSent, lOwn, lModem, lIn,
              lLines, lResp>>

vars == <<lockVars, atVars, httpVars, sessVars, concVars, smsVars,
          pureVars, opsVars, regVars, lateVars>>

\* the variables the threads of Spec leave alone
nonLockVars == <<atVars, httpVars, sessVars, concVars, smsVars, pureVars,
                 opsVars, regVars, lateVars>>
\* the variables one call of command() leaves alone
nonAtVars == <<lockVars, httpVars, sessVars, concVars, smsVars, pureVars,
               opsVars, regVars, lateVars>>
\* the variables one HTTP request leaves alone
nonHttpVars == <<lockVars, atVars, sessVars, concVars, smsVars, pureVars,
                 opsVars, regVars, lateVars>>
\* the variables a session leaves alone
nonSessVars == <<lockVars, atVars, httpVars, concVars, smsVars, pureVars,
                 opsVars, regVars, lateVars>>
\* the variables the concurrent HTTP callers leave alone
nonConcVars == <<lockVars, atVars, httpVars, sessVars, smsVars, pureVars,
                 opsVars, regVars, lateVars>>
\* the variables one call of send() leaves alone
nonSmsVars == <<lockVars, atVars, httpVars, sessVars, concVars, pureVars,
                opsVars, regVars, lateVars>>
\* the variables the parsers leave alone
nonPureVars == <<lockVars, atVars, httpVars, sessVars, concVars, smsVars,
                 opsVars, regVars, lateVars>>
\* the variables the timed operations leave alone
nonOpsVars == <<lockVars, atVars, httpVars, sessVars, concVars, smsVars,
                pureVars, regVars, lateVars>>
\* the variables wait_registered leaves alone
nonRegVars == <<lockVars, atVars, httpVars, sessVars, concVars, smsVars,
                pureVars, opsVars, lateVars>>
\* the variables those calls leave alone
nonLateVars == <<lockVars, atVars, httpVars, sessVars, concVars, smsVars,
                 pureVars, opsVars, regVars>>

\* ------------------------------------------------------------------------
\* Text: a string or byte buffer is the sequence of its characters
\* ------------------------------------------------------------------------
WS == {" ", "\t", "\r", "\n"}
Digits == {"0", "1", "2", "3", "4", "5", "6", "7", "8", "9"}
DigitVal(c) ==
    CASE c = "0" -> 0 [] c = "1" -> 1 [] c = "2" -> 2 [] c = "3" -> 3
      [] c = "4" -> 4 [] c = "5" -> 5 [] c = "6" -> 6 [] c = "7" -> 7
      [] c = "8" -> 8 [] c = "9" -> 9

RECURSIVE LStrip(_)
LStrip(s) == IF s # <<>> /\ Head(s) \in WS THEN LStrip(Tail(s)) ELSE s
RECURSIVE RStrip(_)
RStrip(s) ==
    IF s # <<>> /\ s[Len(s)] \in WS THEN RStrip(SubSeq(s, 1, Len(s) - 1)) ELSE s
\* str.strip()
Strip(s) == RStrip(LStrip(s))

\* str.startswith(p)
StartsWith(s, p) == Len(s) >= Len(p) /\ SubSeq(s, 1, Len(p)) = p
\* p in s
Contains(s, p) ==
    \E i \in 1..(Len(s) - Len(p) + 1) : SubSeq(s, i, i + Len(p) - 1) = p
\* s.find(p, from), 0-based offsets as in Python, -1 when absent
Find(s, p, from) ==
    LET hits == {i \in from..(Len(s) - Len(p)) : SubSeq(s, i + 1, i + Len(p)) = p}
    IN  IF hits = {} THEN -1 ELSE CHOOSE i \in hits : \A j \in hits : i <= j
\* s.replace(p, "")
RECURSIVE Remove(_, _)
Remove(s, p) ==
    IF s = <<>> THEN <<>>
    ELSE IF StartsWith(s, p) THEN Remove(SubSeq(s, Len(p) + 1, Len(s)), p)
    ELSE <<Head(s)>> \o Remove(Tail(s), p)
\* "\n".join(lines)
RECURSIVE Join(_)
Join(ls) ==
    IF ls = <<>> THEN <<>>
    ELSE IF Len(ls) = 1 THEN ls[1]
    ELSE ls[1] \o <<"\n">> \o Join(Tail(ls))

\* int() of the longest run of digits at the start of s
RECURSIVE DigitRun(_, _)
DigitRun(s, acc) ==
    IF s # <<>> /\ Head(s) \in Digits
    THEN DigitRun(Tail(s), 10 * acc + DigitVal(Head(s)))
    ELSE acc
\* re.compile(prefix + r"\s*(\d+)").search(text): group 1 as a number,
\* None when there is no match
None == -1
RegexCode(text, prefix) ==
    LET rest(i) == LStrip(SubSeq(text, i + Len(prefix), Len(text)))
        hits == {i \in 1..Len(text) :
                    /\ StartsWith(SubSeq(text, i, Len(text)), prefix)
                    /\ rest(i) # <<>> /\ Head(rest(i)) \in Digits}
    IN  IF hits = {} THEN None
        ELSE DigitRun(rest(CHOOSE i \in hits : \A j \in hits : i <= j), 0)

T_OK == <<"O", "K">>
T_ERROR == <<"E", "R", "R", "O", "R">>
T_AT == <<"A", "T">>
T_CRLF == <<"\r", "\n">>
T_CME == <<"+", "C", "M", "E", " ", "E", "R", "R", "O", "R", ":">>
T_CMS == <<"+", "C", "M", "S", " ", "E", "R", "R", "O", "R", ":">>
T_CME_PREFIX == <<"+", "C", "M", "E", " ", "E", "R", "R", "O", "R">>
T_CMS_PREFIX == <<"+", "C", "M", "S", " ", "E", "R", "R", "O", "R">>

\* ------------------------------------------------------------------------
\* Bounds
\* ------------------------------------------------------------------------
MaxRetries == 1
MaxLines == 3
MaxBody == 3

\* ------------------------------------------------------------------------
\* ATChannel.command: one call, the modem's reply arriving line by line
\* ------------------------------------------------------------------------
\* the commands sent
CmdSet == {<<"A", "T", "+", "C", "P", "I", "N", "?">>,
           <<"A", "T">>}
\* the lines a modem can send (without their CRLF)
LineOK == T_OK
LineERROR == T_ERROR
LineCME10 == <<"+", "C", "M", "E", " ", "E", "R", "R", "O", "R", ":", " ", "1", "0">>
LineCMS8 == <<"+", "C", "M", "S", " ", "E", "R", "R", "O", "R", ":", " ", "8">>
LineData == <<"+", "C", "P", "I", "N", ":", " ", "R", "E", "A", "D", "Y">>
LineEcho == <<"A", "T", "+", "C", "P", "I", "N", "?">>
LineEmpty == <<>>
LineTextWithERROR == <<"M", "Y", " ", "E", "R", "R", "O", "R">>
LineSet == {LineOK, LineERROR, LineCME10, LineCMS8, LineData, LineEcho,
            LineEmpty, LineTextWithERROR}

RECURSIVE SeqsUpTo(_, _)
SeqsUpTo(S, n) ==
    IF n = 0 THEN {<<>>}
    ELSE LET shorter == SeqsUpTo(S, n - 1)
         IN  shorter \cup {Append(q, x) : q \in {r \in shorter : Len(r) = n - 1}, x \in S}

NoResult == [kind |-> "none"]

\* bytes.decode(errors="ignore") and str.encode("ascii", errors="ignore"):
\* the characters of the model are ASCII, which both keep
Decode(b) == b
Encode(str) == str

\* line in terminals, or "ERROR" in line and line != "OK" (any line that
\* merely contains the text ERROR ends the read)
IsTerminal(line) ==
    \/ line \in {T_OK, T_ERROR}
    \/ (Contains(line, T_ERROR) /\ line # T_OK)

\* the echo test on the first lines: the command, or the command without AT
IsEcho(line, cmdSent) ==
    line = cmdSent \/ line = Strip(Remove(cmdSent, T_AT))

\* _raise_if_error's test
HasError(lines) ==
    \/ \E i \in 1..Len(lines) : lines[i] = T_ERROR
    \/ \E i \in 1..Len(lines) : StartsWith(lines[i], T_CME_PREFIX)
    \/ \E i \in 1..Len(lines) : StartsWith(lines[i], T_CMS_PREFIX)

\* ATCommandErrorDetails built by _raise_if_error
ErrorDetails(cmd, lines) ==
    [kind |-> "aterror", command |-> cmd, response |-> Join(lines),
     cme_code |-> RegexCode(Join(lines), T_CME),
     cms_code |-> RegexCode(Join(lines), T_CMS)]

\* command() is called
ACall ==
    /\ aPc = "idle"
    /\ \E c \in CmdSet, e \in BOOLEAN, w \in BOOLEAN, r \in 0..MaxRetries,
          reply \in SeqsUpTo(LineSet, MaxLines) :
          /\ aCmd' = Strip(c)
          /\ aExpectOk' = e
          /\ aWake' = w
          /\ aRetries' = r
          /\ rx' = reply
    /\ aAttempt' = 0
    /\ aPc' = "send"
    /\ UNCHANGED <<aLines, aRaw, aEcho, aWire, aTimedOut, aLocked, aHolds,
                   aResult>>
    /\ UNCHANGED nonAtVars

\* self.sleep_wake_char and self.sleep_wake_delay_s (in ms)
SleepWakeChar == <<"\r">>
SleepWakeDelayMs == 150

\* one write_raw: the bytes, the lock hold it was made in and the time slept
\* (time.sleep) since the previous write of that hold
Written(data, hold, slept) == [data |-> data, hold |-> hold, slept |-> slept]

\* (a command() that wakes the modem on its first attempt only)
WakeWritesFirstAttemptOnly(wake, att, hold) ==
    IF wake /\ att = 0 THEN <<Written(SleepWakeChar, hold, 0)>> ELSE <<>>

\* if wake_if_needed: write_raw(sleep_wake_char); time.sleep(...)
WakeWrites(wake, att, hold) ==
    IF wake THEN <<Written(SleepWakeChar, hold, 0)>> ELSE <<>>

\* the time slept between the previous write of the hold and the command
SleptBeforeCmd(wake) == IF wake THEN SleepWakeDelayMs ELSE 0

\* with self.lock.acquire(): wake char, sleep, cmd + CRLF
ASend ==
    /\ aPc = "send"
    /\ aLocked' = TRUE
    /\ aHolds' = aHolds + 1
    /\ aWire' = aWire
                \o WakeWrites(aWake, aAttempt, aHolds + 1)
                \o <<Written(Encode(aCmd \o T_CRLF), aHolds + 1,
                             SleptBeforeCmd(aWake))>>
    /\ aLines' = <<>>
    /\ aRaw' = <<>>
    /\ aEcho' = FALSE
    /\ aPc' = "read"
    /\ UNCHANGED <<aCmd, aExpectOk, aWake, aRetries, aAttempt, rx, aTimedOut,
                   aResult>>
    /\ UNCHANGED nonAtVars

\* one turn of the loop of _read_until_terminal with a line read
AReadLine ==
    /\ aPc = "read"
    /\ rx # <<>>
    /\ LET chunk == Head(rx) \o T_CRLF
           line == Strip(Decode(chunk))
       IN  /\ aRaw' = aRaw \o chunk
           /\ IF line = <<>>
              THEN UNCHANGED <<aLines, aEcho, aPc, aLocked>>
              ELSE IF aCmd # <<>> /\ ~aEcho /\ IsEcho(line, aCmd)
              THEN /\ aEcho' = TRUE
                   /\ UNCHANGED <<aLines, aPc, aLocked>>
              ELSE /\ aLines' = Append(aLines, line)
                   /\ aPc' = IF IsTerminal(line) THEN "check" ELSE "read"
                   /\ aLocked' = ~IsTerminal(line)
                   /\ UNCHANGED aEcho
    /\ rx' = Tail(rx)
    /\ UNCHANGED <<aCmd, aExpectOk, aWake, aRetries, aAttempt, aWire, aTimedOut,
                   aHolds, aResult>>
    /\ UNCHANGED nonAtVars

\* (a command() that tries once more than retries allows)
RetryAfterTimeoutOneMore(att, retries) == att <= retries

\* except ATTimeoutError: if attempt < retries: continue
RetryAfterTimeout(att, retries) == att < retries

\* the deadline passes before a terminal line was read: ATTimeoutError,
\* caught by command(), which tries again while attempt < retries
AExpire ==
    /\ aPc = "read"
    /\ aTimedOut' = aTimedOut + 1
    /\ aLocked' = FALSE
    /\ IF RetryAfterTimeout(aAttempt, aRetries)
       THEN /\ aAttempt' = aAttempt + 1
            /\ aPc' = "send"
            /\ UNCHANGED aResult
       ELSE /\ aResult' = [kind |-> "timeout"]
            /\ aPc' = "done"
            /\ UNCHANGED aAttempt
    /\ UNCHANGED <<aCmd, aExpectOk, aWake, aRetries, rx, aLines, aRaw, aEcho,
                   aWire, aHolds>>
    /\ UNCHANGED nonAtVars

\* after the with block: _raise_if_error when expect_ok, else return resp
ACheck ==
    /\ aPc = "check"
    /\ aResult' = IF aExpectOk /\ HasError(aLines)
                  THEN ErrorDetails(aCmd, aLines)
                  ELSE [kind |-> "response", lines |-> aLines, raw |-> aRaw]
    /\ aPc' = "done"
    /\ UNCHANGED <<aCmd, aExpectOk, aWake, aRetries, aAttempt, rx, aLines, aRaw,
                   aEcho, aWire, aTimedOut, aLocked, aHolds>>
    /\ UNCHANGED nonAtVars

\* ------------------------------------------------------------------------
\* HTTP: one request, the reply to AT+HTTPREAD arriving in chunks
\* ------------------------------------------------------------------------
T_MARKER == <<"+", "H", "T", "T", "P", "R", "E", "A", "D", ":">>
T_HTTPREAD_TAIL == <<"\r", "\n", "O", "K", "\r", "\n">>

\* the bytes a body is made of, and two bodies that look like modem replies
ByteSet == {"\r", "\n", "O", "K"}
BodySet == (SeqsUpTo(ByteSet, MaxBody) \ {<<>>})
              \cup {T_ERROR, T_HTTPREAD_TAIL}

\* the statuses a +HTTPACTION URC reports
StatusSet == {200, 404, 601, 604}
\* max_retries
HttpMaxRetries == 3

DigitChar(d) ==
    CASE d = 0 -> "0" [] d = 1 -> "1" [] d = 2 -> "2" [] d = 3 -> "3"
      [] d = 4 -> "4" [] d = 5 -> "5" [] d = 6 -> "6" [] d = 7 -> "7"
      [] d = 8 -> "8" [] d = 9 -> "9"
RECURSIVE Dec(_)
Dec(n) == IF n < 10 THEN <<DigitChar(n)>>
          ELSE Dec(n \div 10) \o <<DigitChar(n % 10)>>

\* what the modem sends in reply to AT+HTTPREAD:
\* +HTTPREAD: <len> CRLF <len bytes> CRLF OK CRLF
HttpReadReply(body) ==
    T_MARKER \o <<" ">> \o Dec(Len(body)) \o T_CRLF \o body \o T_HTTPREAD_TAIL

NoHttpResult == [kind |-> "none"]
HttpResponse(status, data) ==
    [kind |-> "response", status_code |-> status, data |-> data]
\* HTTPError(message, status_code); status_code None when not given
HttpError(msg, status) ==
    [kind |-> "httperror", msg |-> msg, status_code |-> status]

\* bytes(raw[a:b]) with Python's clipping
Slice(raw, a, b) ==
    SubSeq(raw, a + 1, IF b < Len(raw) THEN b ELSE Len(raw))

\* (a reader without the truncation test)
TruncatedNever(raw, bodyStart, expected) == FALSE

\* len(raw) < body_start + expected_length
Truncated(raw, bodyStart, expected) == Len(raw) < bodyStart + expected

\* the end of _read_http_body once its second loop is over
BodyResult(raw, bodyStart, expected, status) ==
    IF Truncated(raw, bodyStart, expected)
    THEN HttpError("truncated", None)
    ELSE HttpResponse(status, Slice(raw, bodyStart, bodyStart + expected))

\* @retry_on_http_error(max_retries=3, retry_codes=(604,), delay=5.0) is on
\* get() and post(); head() is not decorated
Decorated(method) == method # 2
RetryDelayMs == 5000

\* one entry of the history of a request: a write to the modem, or a sleep of
\* the retry wrapper; prompted tells whether DOWNLOAD had been read in a chunk
\* of this attempt when the entry was made
Event(kind, try, ms, prompted) ==
    [kind |-> kind, try |-> try, ms |-> ms, prompted |-> prompted]

\* one finished attempt: what it returned or raised, and the status of the
\* +HTTPACTION URC it parsed (None when it got none)
AttemptOf(outcome, urc) == [out |-> outcome, urc |-> urc]

\* (a wrapper that also retries on 601)
RetryCodesWith601 == {601, 604}

\* retry_codes
RetryCodes == {604}

\* the wrapper of retry_on_http_error on what func returned or raised in
\* attempt try: return it, let it propagate, or sleep and go round again
RetryDecision(outcome, try) ==
    IF outcome.kind # "httperror" THEN "leave"
    ELSE IF outcome.status_code \notin RetryCodes THEN "leave"
    ELSE IF try < HttpMaxRetries - 1 THEN "retry"
    ELSE "leave"

\* an attempt ends with outcome, having parsed the URC status urc and made
\* the writes of events
AttemptEnds(outcome, urc, events) ==
    /\ hLog' = Append(hLog, AttemptOf(outcome, urc))
    /\ IF Decorated(hMethod) /\ RetryDecision(outcome, hTry) = "retry"
       THEN /\ hTry' = hTry + 1
            /\ hPc' = "params"
            /\ hEvents' = Append(events, Event("sleep", hTry, RetryDelayMs, FALSE))
            /\ UNCHANGED hResult
       ELSE /\ hResult' = outcome
            /\ hPc' = "done"
            /\ hEvents' = events
            /\ UNCHANGED hTry

\* get(), post() or head() is called
HCall ==
    /\ hPc = "idle"
    /\ \E m \in {0, 1, 2} : hMethod' = m
    /\ hTry' = 0
    /\ hPc' = "params"
    /\ UNCHANGED <<hActions, hStatus, hLength, hBody, hStream, hRaw,
                   hBodyStart, hExpired, hResult, hLog, hEvents, hPrompt,
                   hSeen, hGot, hRecv>>
    /\ UNCHANGED nonHttpVars

\* the commands before HTTPDATA and HTTPACTION (HTTPPARA URL, CONTENT,
\* USERDATA): all answered OK, or one of them raises
HParams ==
    /\ hPc = "params"
    /\ \E out \in {"ok", "aterror", "attimeout"} :
          IF out = "ok"
          THEN /\ hPc' = IF hMethod = 1 THEN "httpdata" ELSE "action"
               /\ hEvents' = Append(hEvents, Event("params", hTry, 0, FALSE))
               /\ UNCHANGED <<hResult, hTry, hLog>>
          ELSE AttemptEnds([kind |-> out], None, hEvents)
    /\ UNCHANGED <<hMethod, hActions, hStatus, hLength, hBody, hStream,
                   hRaw, hBodyStart, hExpired, hPrompt, hSeen, hGot, hRecv>>
    /\ UNCHANGED nonHttpVars

\* what the modem sends after AT+HTTPDATA: nothing, the prompt, or an error
T_DOWNLOAD == <<"D", "O", "W", "N", "L", "O", "A", "D">>
PromptSet == {<<>>,
              T_CRLF \o T_DOWNLOAD \o T_CRLF,
              T_CRLF \o T_ERROR \o T_CRLF}

\* (a post() that takes any chunk for the prompt)
GotDownloadAnyChunk(chunk) == TRUE

\* if b"DOWNLOAD" in chunk
GotDownload(chunk) == Contains(chunk, T_DOWNLOAD)

\* post(): AT+HTTPDATA=<len>,<ms> is written under the lock
HData ==
    /\ hPc = "httpdata"
    /\ hEvents' = Append(hEvents, Event("httpdata", hTry, 0, FALSE))
    /\ \E prompt \in PromptSet : hPrompt' = prompt
    /\ hSeen' = FALSE
    /\ hGot' = FALSE
    /\ hRecv' = <<>>
    /\ hPc' = "prompt"
    /\ UNCHANGED <<hMethod, hTry, hActions, hStatus, hLength, hBody, hStream,
                   hRaw, hBodyStart, hExpired, hResult, hLog>>
    /\ UNCHANGED nonHttpVars

\* post(): chunk = ser.read(in_waiting or 1), any number of the bytes sent so
\* far; the loop is left when DOWNLOAD is in the chunk
HPromptRead ==
    /\ hPc = "prompt"
    /\ hPrompt # <<>>
    /\ \E k \in 1..Len(hPrompt) :
          LET chunk == SubSeq(hPrompt, 1, k)
          IN  /\ hPrompt' = SubSeq(hPrompt, k + 1, Len(hPrompt))
              /\ hSeen' = (hSeen \/ Contains(chunk, T_DOWNLOAD))
              /\ hGot' = GotDownload(chunk)
              /\ hRecv' = hRecv \o chunk
              /\ hPc' = IF GotDownload(chunk) THEN "upload" ELSE "prompt"
    /\ UNCHANGED <<hMethod, hTry, hActions, hStatus, hLength, hBody, hStream,
                   hRaw, hBodyStart, hExpired, hResult, hLog, hEvents>>
    /\ UNCHANGED nonHttpVars

\* post(): the deadline passes with got_download still False
HPromptExpire ==
    /\ hPc = "prompt"
    /\ AttemptEnds(HttpError("Did not receive DOWNLOAD prompt from modem", None),
                   None, hEvents)
    /\ UNCHANGED <<hMethod, hActions, hStatus, hLength, hBody, hStream, hRaw,
                   hBodyStart, hExpired, hPrompt, hSeen, hGot, hRecv>>
    /\ UNCHANGED nonHttpVars

\* post(): the body is written, then _read_until_terminal and _raise_if_error
HUpload ==
    /\ hPc = "upload"
    /\ LET events == Append(hEvents, Event("body", hTry, 0, hSeen))
       IN  \E out \in {"ok", "aterror", "attimeout"} :
              IF out = "ok"
              THEN /\ hPc' = "action"
                   /\ hEvents' = events
                   /\ UNCHANGED <<hResult, hTry, hLog>>
              ELSE AttemptEnds([kind |-> out], None, events)
    /\ UNCHANGED <<hMethod, hActions, hStatus, hLength, hBody, hStream, hRaw,
                   hBodyStart, hExpired, hPrompt, hSeen, hGot, hRecv>>
    /\ UNCHANGED nonHttpVars

\* self.at.command("AT+HTTPACTION=<method>")
HAction ==
    /\ hPc = "action"
    /\ hActions' = hActions + 1
    /\ LET events == Append(hEvents, Event("action", hTry, 0, hSeen))
       IN  \E out \in {"ok", "aterror", "attimeout"} :
              IF out = "ok"
              THEN /\ hPc' = "urc"
                   /\ hEvents' = events
                   /\ UNCHANGED <<hResult, hTry, hLog>>
              ELSE AttemptEnds([kind |-> out], None, events)
    /\ UNCHANGED <<hMethod, hStatus, hLength, hBody, hStream, hRaw,
                   hBodyStart, hExpired, hPrompt, hSeen, hGot, hRecv>>
    /\ UNCHANGED nonHttpVars

\* wait_for_urc("+HTTPACTION:") raises: HTTPError without a status code
HUrcTimeout ==
    /\ hPc = "urc"
    /\ AttemptEnds(HttpError("Timeout waiting for +HTTPACTION", None), None,
                   hEvents)
    /\ UNCHANGED <<hMethod, hActions, hStatus, hLength, hBody, hStream,
                   hRaw, hBodyStart, hExpired, hPrompt, hSeen, hGot, hRecv>>
    /\ UNCHANGED nonHttpVars

\* a line starting with +HTTPACTION: that the regex does not match
HUrcUnparsed ==
    /\ hPc = "urc"
    /\ AttemptEnds(HttpError("Could not parse +HTTPACTION", None), None,
                   hEvents)
    /\ UNCHANGED <<hMethod, hActions, hStatus, hLength, hBody, hStream,
                   hRaw, hBodyStart, hExpired, hPrompt, hSeen, hGot, hRecv>>
    /\ UNCHANGED nonHttpVars

\* the URC "+HTTPACTION: <method>,<status>,<length>" is read and parsed;
\* status >= 600 raises (_handle_http_error), HEAD and length 0 return an
\* empty body, else the body is read
\* (a request that reads a body after every URC)
ReadsBodyAlways(method, length) == TRUE

\* neither "if method == 2: return" nor "if length == 0: return"
ReadsBody(method, length) == method # 2 /\ length # 0

HUrc ==
    /\ hPc = "urc"
    /\ \E st \in StatusSet, body \in BodySet \cup {<<>>} :
          /\ st >= 600 => body = <<>>
          /\ hStatus' = st
          /\ hLength' = Len(body)
          /\ hBody' = body
          /\ IF st >= 600
             THEN AttemptEnds(HttpError("stack", st), st, hEvents)
             ELSE IF ~ReadsBody(hMethod, Len(body))
                  THEN AttemptEnds(HttpResponse(st, <<>>), st, hEvents)
                  ELSE /\ hPc' = "httpread"
                       /\ UNCHANGED <<hTry, hResult, hLog, hEvents>>
    /\ UNCHANGED <<hMethod, hActions, hStream, hRaw, hBodyStart, hExpired,
                   hPrompt, hSeen, hGot, hRecv>>
    /\ UNCHANGED nonHttpVars

\* _read_http_body: wake char and AT+HTTPREAD written under the lock; the
\* modem starts to answer
HReadStart ==
    /\ hPc = "httpread"
    /\ hStream' = HttpReadReply(hBody)
    /\ hRaw' = <<>>
    /\ hPc' = "marker"
    /\ hEvents' = Append(hEvents, Event("httpread", hTry, 0, hSeen))
    /\ UNCHANGED <<hMethod, hTry, hActions, hStatus, hLength, hBody,
                   hBodyStart, hExpired, hResult, hLog, hPrompt, hSeen, hGot, hRecv>>
    /\ UNCHANGED nonHttpVars

\* first loop: chunk = ser.read(in_waiting or 1), any number of the bytes
\* sent so far; once the marker is in raw the header line's CRLF is looked
\* for in what has been read
HReadMarker ==
    /\ hPc = "marker"
    /\ hStream # <<>>
    /\ \E k \in 1..Len(hStream) :
          LET raw == hRaw \o SubSeq(hStream, 1, k)
              markerPos == Find(raw, T_MARKER, 0)
              firstCrlf == Find(raw, T_CRLF, markerPos)
          IN  /\ hRaw' = raw
              /\ hStream' = SubSeq(hStream, k + 1, Len(hStream))
              /\ IF ~Contains(raw, T_MARKER)
                 THEN UNCHANGED <<hPc, hBodyStart, hResult, hTry, hLog, hEvents>>
                 ELSE IF firstCrlf = -1
                 THEN /\ AttemptEnds(HttpError("Malformed +HTTPREAD response", None),
                                     hStatus, hEvents)
                      /\ UNCHANGED hBodyStart
                 ELSE /\ hBodyStart' = firstCrlf + Len(T_CRLF)
                      /\ hPc' = "body"
                      /\ UNCHANGED <<hResult, hTry, hLog, hEvents>>
    /\ UNCHANGED <<hMethod, hActions, hStatus, hLength, hBody, hExpired,
                   hPrompt, hSeen, hGot, hRecv>>
    /\ UNCHANGED nonHttpVars

\* second loop: chunk = ser.read(min(remaining, 1024))
HReadBody ==
    /\ hPc = "body"
    /\ Truncated(hRaw, hBodyStart, hLength)
    /\ hStream # <<>>
    /\ LET remaining == hBodyStart + hLength - Len(hRaw)
           most == IF remaining < Len(hStream) THEN remaining ELSE Len(hStream)
       IN  \E k \in 1..most :
              /\ hRaw' = hRaw \o SubSeq(hStream, 1, k)
              /\ hStream' = SubSeq(hStream, k + 1, Len(hStream))
    /\ UNCHANGED <<hMethod, hTry, hActions, hStatus, hLength, hBody, hBodyStart,
                   hExpired, hPc, hResult, hLog, hEvents, hPrompt, hSeen, hGot, hRecv>>
    /\ UNCHANGED nonHttpVars

\* the second loop is over because the body is complete: slice it, drain
\* what is waiting, return
HBodyDone ==
    /\ hPc = "body"
    /\ ~Truncated(hRaw, hBodyStart, hLength)
    /\ AttemptEnds(BodyResult(hRaw, hBodyStart, hLength, hStatus), hStatus,
                   hEvents)
    /\ \E k \in 0..Len(hStream) :
          hStream' = SubSeq(hStream, k + 1, Len(hStream))
    /\ UNCHANGED <<hMethod, hActions, hStatus, hLength, hBody, hRaw,
                   hBodyStart, hExpired, hPrompt, hSeen, hGot, hRecv>>
    /\ UNCHANGED nonHttpVars

\* the 30 s deadline passes while a loop still waits for bytes
HExpire ==
    /\ hPc \in {"marker", "body"}
    /\ hPc = "body" => Truncated(hRaw, hBodyStart, hLength)
    /\ hExpired' = TRUE
    /\ AttemptEnds(IF hPc = "marker"
                   THEN HttpError("Did not receive +HTTPREAD response", None)
                   ELSE BodyResult(hRaw, hBodyStart, hLength, hStatus),
                   hStatus, hEvents)
    /\ UNCHANGED <<hMethod, hActions, hStatus, hLength, hBody, hStream,
                   hRaw, hBodyStart, hPrompt, hSeen, hGot, hRecv>>
    /\ UNCHANGED nonHttpVars

\* ------------------------------------------------------------------------
\* Session: SIM800Session.__enter__ and __exit__, command by command, against
\* a modem that keeps HTTP-service and bearer state between sessions
\* ------------------------------------------------------------------------
MaxSessions == 2
MaxPolls == 2
MaxUnread == 1

L_CPIN_READY == <<"+", "C", "P", "I", "N", ":", " ", "R", "E", "A", "D", "Y">>
L_CPIN_SIM_PIN == <<"+", "C", "P", "I", "N", ":", " ", "S", "I", "M", " ", "P", "I", "N">>
L_CREG_HOME == <<"+", "C", "R", "E", "G", ":", " ", "0", ",", "1">>
L_CREG_SEARCHING == <<"+", "C", "R", "E", "G", ":", " ", "0", ",", "2">>
L_CGREG_HOME == <<"+", "C", "G", "R", "E", "G", ":", " ", "0", ",", "1">>
L_CGREG_SEARCHING == <<"+", "C", "G", "R", "E", "G", ":", " ", "0", ",", "2">>
L_CGATT_1 == <<"+", "C", "G", "A", "T", "T", ":", " ", "1">>
L_CGATT_0 == <<"+", "C", "G", "A", "T", "T", ":", " ", "0">>
L_SAPBR_OPEN == <<"+", "S", "A", "P", "B", "R", ":", " ", "1", ",", "1", ",", "\"", "1", "0", ".", "0", ".", "0", ".", "1", "\"">>
L_HTTPACTION_URC == <<"+", "H", "T", "T", "P", "A", "C", "T", "I", "O", "N", ":", " ", "0", ",", "2", "0", "0", ",", "5">>
T_READY == <<"R", "E", "A", "D", "Y">>
T_CREG == <<"+", "C", "R", "E", "G", ":">>
T_CGREG == <<"+", "C", "G", "R", "E", "G", ":">>
T_SAPBR == <<"+", "S", "A", "P", "B", "R", ":">>

\* re.split(r"[:,]", line), each part stripped, empty parts dropped
RECURSIVE SplitParts(_, _)
SplitParts(s, cur) ==
    IF s = <<>> THEN (IF Strip(cur) = <<>> THEN <<>> ELSE <<Strip(cur)>>)
    ELSE IF Head(s) \in {":", ","}
    THEN (IF Strip(cur) = <<>> THEN <<>> ELSE <<Strip(cur)>>)
         \o SplitParts(Tail(s), <<>>)
    ELSE SplitParts(Tail(s), Append(cur, Head(s)))

\* int(p) of a part: its value when p is a run of digits, None (ValueError)
\* otherwise
ParseInt(p) ==
    IF p # <<>> /\ \A i \in 1..Len(p) : p[i] \in Digits
    THEN DigitRun(p, 0) ELSE None

\* the for loop of wait_registered over resp.lines: the first +CREG: or
\* +CGREG: line whose last part is 1 or 5 returns; a last part that is no
\* number raises, which ends the poll
RECURSIVE Registered(_)
Registered(lines) ==
    IF lines = <<>> THEN FALSE
    ELSE IF StartsWith(Head(lines), T_CREG) \/ StartsWith(Head(lines), T_CGREG)
    THEN LET parts == SplitParts(Head(lines), <<>>)
             stat == ParseInt(parts[Len(parts)])
         IN  IF stat = None THEN FALSE
             ELSE IF stat \in {1, 5} THEN TRUE
             ELSE Registered(Tail(lines))
    ELSE Registered(Tail(lines))

\* any("READY" in line for line in resp.lines)
SimReady(lines) == \E i \in 1..Len(lines) : Contains(lines[i], T_READY)

\* any("+CGATT: 1" in line for line in resp.lines)
Attached(lines) == \E i \in 1..Len(lines) : Contains(lines[i], L_CGATT_1)

\* query(): a line that starts with +SAPBR: and matches \+SAPBR:\s*(\d+),(\d+)
SapbrParsed(lines) ==
    \E i \in 1..Len(lines) :
        /\ StartsWith(lines[i], T_SAPBR)
        /\ LET rest == LStrip(SubSeq(lines[i], Len(T_SAPBR) + 1, Len(lines[i])))
               parts == SplitParts(rest, <<>>)
           IN  /\ Len(parts) >= 2
               /\ ParseInt(parts[1]) # None
               /\ parts[2] # <<>> /\ Head(parts[2]) \in Digits

\* one command of a session: the command, expect_ok, retries, what the
\* session does with its result, and the step of the entry it belongs to
Step(cmd, expectOk, retries, kind, stage) ==
    [cmd |-> cmd, expectOk |-> expectOk, retries |-> retries, kind |-> kind,
     stage |-> stage]

\* SIM800Session.__enter__ with cid = 1
EnterScript ==
    << Step("AT", TRUE, 2, "must", 1),
       Step("ATE0", TRUE, 0, "must", 1),
       Step("AT+CMEE=2", TRUE, 0, "must", 1),
       Step("AT+HTTPTERM", FALSE, 0, "try", 2),
       Step("AT+SAPBR=0,1", FALSE, 0, "try", 2),
       Step("AT+CPIN?", TRUE, 0, "sim_ready", 3),
       Step("AT+CREG?", TRUE, 1, "wait_registered", 4),
       Step("AT+CGATT=1", TRUE, 1, "attach_set", 5),
       Step("AT+CGATT?", TRUE, 0, "attach_query", 5),
       Step("AT+CGREG?", TRUE, 1, "wait_registered", 6),
       Step("AT+SAPBR=3,1,\"Contype\",\"GPRS\"", TRUE, 0, "must", 7),
       Step("AT+SAPBR=3,1,\"APN\",\"www\"", TRUE, 0, "must", 7),
       Step("AT+SAPBR=1,1", TRUE, 1, "must", 7),
       Step("AT+SAPBR=2,1", TRUE, 0, "query", 7),
       Step("AT+HTTPTERM", FALSE, 0, "try", 8),
       Step("AT+HTTPINIT", TRUE, 0, "must", 8),
       Step("AT+HTTPPARA=\"CID\",1", TRUE, 0, "must", 8) >>

\* (an exit that closes the bearer whatever the configuration says)
ExitScriptAlwaysClose(keep) ==
    << Step("AT+HTTPTERM", FALSE, 0, "try", 1),
       Step("AT+SAPBR=0,1", TRUE, 0, "try", 2) >>

\* SIM800Session.__exit__: http.term(), then gprs.close() unless
\* keep_bearer_open
ExitScript(keep) ==
    << Step("AT+HTTPTERM", FALSE, 0, "try", 1) >>
    \o (IF keep THEN <<>> ELSE << Step("AT+SAPBR=0,1", TRUE, 0, "try", 2) >>)

ScriptOf(phase, keep) == IF phase = "enter" THEN EnterScript ELSE ExitScript(keep)

\* the first step of the polling loop a step belongs to
LoopStart(script, i) == IF script[i].kind = "attach_query" THEN i - 1 ELSE i

\* (a session whose cleanup commands are not wrapped in try/except)
JudgeCleanupAborts(kind, out) ==
    CASE kind = "must" -> IF out.kind = "response" THEN "ok" ELSE "raise"
      [] kind = "try" -> IF out.kind = "response" THEN "ok" ELSE "raise"
      [] kind = "sim_ready" ->
            IF out.kind = "response" /\ SimReady(out.lines) THEN "ok" ELSE "raise"
      [] kind = "wait_registered" ->
            IF out.kind = "response" /\ Registered(out.lines) THEN "ok" ELSE "again"
      [] kind = "attach_set" -> IF out.kind = "response" THEN "ok" ELSE "again"
      [] kind = "attach_query" ->
            IF out.kind = "response" /\ Attached(out.lines) THEN "ok" ELSE "again"
      [] kind = "query" ->
            IF out.kind = "response" /\ SapbrParsed(out.lines) THEN "ok" ELSE "raise"

\* what the session does once command() has returned or raised out:
\* go on, swallow the exception and go on, poll again, or raise
Judge(kind, out) ==
    CASE kind = "must" -> IF out.kind = "response" THEN "ok" ELSE "raise"
      [] kind = "try" -> IF out.kind = "response" THEN "ok" ELSE "swallow"
      [] kind = "sim_ready" ->
            IF out.kind = "response" /\ SimReady(out.lines) THEN "ok" ELSE "raise"
      [] kind = "wait_registered" ->
            IF out.kind = "response" /\ Registered(out.lines) THEN "ok" ELSE "again"
      [] kind = "attach_set" -> IF out.kind = "response" THEN "ok" ELSE "again"
      [] kind = "attach_query" ->
            IF out.kind = "response" /\ Attached(out.lines) THEN "ok" ELSE "again"
      [] kind = "query" ->
            IF out.kind = "response" /\ SapbrParsed(out.lines) THEN "ok" ELSE "raise"

\* the index of the first terminal line, 0 when there is none
FirstTerminal(lines) ==
    LET hits == {i \in 1..Len(lines) : IsTerminal(lines[i])}
    IN  IF hits = {} THEN 0 ELSE CHOOSE i \in hits : \A j \in hits : i <= j

\* one attempt of command(): the unread lines rx come first, the reply after
\* them (a late reply only after the deadline); _read_until_terminal takes
\* the lines up to the first terminal one, _raise_if_error looks at them
Exec(unread, reply, late, expectOk) ==
    LET avail == IF late THEN unread ELSE unread \o reply
        after == IF late THEN reply ELSE <<>>
        k == FirstTerminal(avail)
        lines == SubSeq(avail, 1, k)
    IN  IF k = 0
        THEN [out |-> [kind |-> "timeout", lines |-> <<>>], rx |-> after]
        ELSE [out |-> [kind |-> IF expectOk /\ HasError(lines)
                                THEN "aterror" ELSE "response",
                       lines |-> lines],
              rx |-> SubSeq(avail, k + 1, Len(avail)) \o after]

\* what the modem does with a command: the lines it sends, whether they come
\* after the deadline, and its HTTP-service and bearer state afterwards
Answer(lines, late, http, bearer) ==
    [lines |-> lines, late |-> late, http |-> http, bearer |-> bearer]

\* a responsive, registered modem: HTTPINIT fails while the HTTP service is
\* up, SAPBR=1 fails while the bearer is open, HTTPTERM and SAPBR=0 fail when
\* there is nothing to close
GoodAnswer(cmd, http, bearer) ==
    CASE cmd = "AT+HTTPTERM" ->
            Answer(IF http THEN <<T_OK>> ELSE <<T_ERROR>>, FALSE, FALSE, bearer)
      [] cmd = "AT+HTTPINIT" ->
            Answer(IF http THEN <<T_ERROR>> ELSE <<T_OK>>, FALSE, TRUE, bearer)
      [] cmd = "AT+SAPBR=0,1" ->
            Answer(IF bearer THEN <<T_OK>> ELSE <<T_ERROR>>, FALSE, http, FALSE)
      [] cmd = "AT+SAPBR=1,1" ->
            Answer(IF bearer THEN <<T_ERROR>> ELSE <<T_OK>>, FALSE, http, TRUE)
      [] cmd = "AT+SAPBR=2,1" -> Answer(<<L_SAPBR_OPEN, T_OK>>, FALSE, http, bearer)
      [] cmd = "AT+CPIN?" -> Answer(<<L_CPIN_READY, T_OK>>, FALSE, http, bearer)
      [] cmd = "AT+CREG?" -> Answer(<<L_CREG_HOME, T_OK>>, FALSE, http, bearer)
      [] cmd = "AT+CGREG?" -> Answer(<<L_CGREG_HOME, T_OK>>, FALSE, http, bearer)
      [] cmd = "AT+CGATT?" -> Answer(<<L_CGATT_1, T_OK>>, FALSE, http, bearer)
      [] OTHER -> Answer(<<T_OK>>, FALSE, http, bearer)

\* the reply of a modem that has no SIM, no network or no bearer
NegativeLines(cmd) ==
    CASE cmd = "AT+CPIN?" -> <<L_CPIN_SIM_PIN, T_OK>>
      [] cmd = "AT+CREG?" -> <<L_CREG_SEARCHING, T_OK>>
      [] cmd = "AT+CGREG?" -> <<L_CGREG_SEARCHING, T_OK>>
      [] cmd = "AT+CGATT?" -> <<L_CGATT_0, T_OK>>
      [] cmd = "AT+SAPBR=2,1" -> <<T_OK>>
      [] OTHER -> <<T_ERROR>>

\* the answers a modem can give: the good one; or, when it is not known to
\* be responsive and registered, the good one after the deadline, ERROR, a
\* negative reply or none at all
ModemReplies(cmd, good, http, bearer, unread) ==
    LET g == GoodAnswer(cmd, http, bearer)
    IN  IF good THEN {g}
        ELSE {g,
              Answer(<<T_ERROR>>, FALSE, http, bearer),
              Answer(NegativeLines(cmd), FALSE, http, bearer),
              Answer(<<>>, FALSE, http, bearer)}
             \cup (IF Len(unread) < MaxUnread
                   THEN {Answer(g.lines, TRUE, g.http, g.bearer)} ELSE {})

\* what the body of a session can leave unread: nothing, the OK that follows
\* the body of AT+HTTPREAD (the drain of _read_http_body does not wait for
\* it), or a URC that came after its deadline
BodyLeftovers == {<<>>, <<T_OK>>, <<L_HTTPACTION_URC>>}

Goto(phase, step, try, polls) ==
    /\ sPhase' = phase
    /\ sStep' = step
    /\ sTry' = try
    /\ sPolls' = polls

\* with SIM800Session(at, cfg) as s, or with gsm.session(apn, keep) as s
SBegin ==
    /\ sPhase = "out"
    /\ sCount < MaxSessions
    /\ \E k \in BOOLEAN, v \in {"with", "contextmanager"}, g \in BOOLEAN :
          /\ sKeep' = k
          /\ sVia' = v
          /\ mGood' = g
    /\ sCount' = sCount + 1
    /\ Goto("enter", 1, 0, 0)
    /\ sLog' = <<>>
    /\ sOk' = {}
    /\ sSwallowed' = {}
    /\ sRaisedAt' = 0
    /\ sOutcome' = "none"
    /\ sBodyExc' = FALSE
    /\ sExitRaised' = FALSE
    /\ UNCHANGED <<sRx, mHttp, mBearer>>
    /\ UNCHANGED nonSessVars

\* one attempt of the command of the current step of __enter__ or __exit__,
\* and what the session does with its result
SCommand(phase) ==
    /\ sPhase = phase
    /\ LET script == ScriptOf(phase, sKeep)
           st == script[sStep]
       IN  \E rep \in ModemReplies(st.cmd, mGood, mHttp, mBearer, sRx) :
              LET ex == Exec(sRx, rep.lines, rep.late, st.expectOk)
                  verdict == Judge(st.kind, ex.out)
                  last == sStep = Len(script)
                  stageEnds == last \/ script[sStep + 1].stage # st.stage
                  entry == [phase |-> phase, step |-> sStep, cmd |-> st.cmd]
              IN  /\ sLog' = IF sLog # <<>> /\ sLog[Len(sLog)] = entry
                             THEN sLog ELSE Append(sLog, entry)
                  /\ sRx' = ex.rx
                  /\ mHttp' = rep.http
                  /\ mBearer' = rep.bearer
                  /\ IF ex.out.kind = "timeout" /\ RetryAfterTimeout(sTry, st.retries)
                     THEN /\ Goto(phase, sStep, sTry + 1, sPolls)
                          /\ UNCHANGED <<sOk, sSwallowed, sRaisedAt, sOutcome,
                                         sExitRaised>>
                     ELSE IF verdict \in {"ok", "swallow"}
                     THEN /\ IF phase = "enter"
                             THEN /\ sOk' = IF verdict = "ok"
                                            THEN sOk \cup {sStep} ELSE sOk
                                  /\ sSwallowed' = IF verdict = "swallow"
                                                   THEN sSwallowed \cup {sStep}
                                                   ELSE sSwallowed
                             ELSE UNCHANGED <<sOk, sSwallowed>>
                          /\ IF last
                             THEN /\ Goto(IF phase = "enter" THEN "body" ELSE "out",
                                          1, 0, 0)
                                  /\ sOutcome' = IF phase = "enter"
                                                 THEN "entered" ELSE sOutcome
                             ELSE /\ Goto(phase, sStep + 1, 0,
                                          IF stageEnds THEN 0 ELSE sPolls)
                                  /\ UNCHANGED sOutcome
                          /\ UNCHANGED <<sRaisedAt, sExitRaised>>
                     ELSE IF verdict = "again" /\ sPolls + 1 < MaxPolls
                     THEN /\ Goto(phase, LoopStart(script, sStep), 0, sPolls + 1)
                          /\ sOk' = sOk \ (LoopStart(script, sStep)..sStep)
                          /\ UNCHANGED <<sSwallowed, sRaisedAt, sOutcome,
                                         sExitRaised>>
                     ELSE /\ IF phase = "enter"
                             THEN /\ sOutcome' = "raised"
                                  /\ sRaisedAt' = sStep
                                  /\ Goto(IF sVia = "contextmanager"
                                          THEN "exit" ELSE "out", 1, 0, 0)
                                  /\ UNCHANGED sExitRaised
                             ELSE /\ sExitRaised' = TRUE
                                  /\ Goto("out", 1, 0, 0)
                                  /\ UNCHANGED <<sOutcome, sRaisedAt>>
                          /\ UNCHANGED <<sOk, sSwallowed>>
    /\ UNCHANGED <<sKeep, sVia, sBodyExc, sCount, mGood>>
    /\ UNCHANGED nonSessVars

\* the body of the with statement: it returns or raises, and may leave
\* lines unread
SBody ==
    /\ sPhase = "body"
    /\ \E e \in BOOLEAN, left \in BodyLeftovers :
          /\ left # <<>> => Len(sRx) < MaxUnread
          /\ sBodyExc' = e
          /\ sRx' = sRx \o left
    /\ Goto("exit", 1, 0, 0)
    /\ UNCHANGED <<sKeep, sVia, sLog, sOk, sSwallowed, sRaisedAt, sOutcome,
                   sExitRaised, sCount, mHttp, mBearer, mGood>>
    /\ UNCHANGED nonSessVars

\* ------------------------------------------------------------------------
\* Two callers of one HTTP object: get() and post() from two threads of one
\* channel.  Every command(), wait_for_urc(), HTTPDATA upload and
\* _read_http_body holds the channel's lock from its first write to its last
\* read, so each is one step here; nothing holds the lock from one of them to
\* the next.
\* ------------------------------------------------------------------------
Callers == {"T1", "T2"}
Urls == {"u1", "u2"}

\* the body the server holds for a URL
Page(url) == IF url = "u1" THEN <<"O">> ELSE <<"K", "K">>
\* data of post(): the caller's own bytes
Payload(t) == IF t = "T1" THEN <<"\r">> ELSE <<"\n">>
\* what the server answers to the request the modem makes
ServerReply(method, url, up) ==
    IF method = 1 THEN Page(url) \o up ELSE Page(url)
\* the answer a caller's own request gets
OwnReply(t) == ServerReply(qMethod[t], qUrl[t], Payload(t))

NoUrl == "none"
\* by: the caller whose AT+HTTPACTION started the request (history)
NoFetch == [method |-> 0, url |-> NoUrl, up |-> <<>>, by |-> "none"]
Urc(status, length, by) == [status |-> status, length |-> length, by |-> by]

\* a request is in flight from the end of its first command to its return or
\* raise
InFlight(t) == qPc[t] \in {"data", "action", "urc", "read"}

QEnd(t, result) ==
    /\ qResult' = [qResult EXCEPT ![t] = result]
    /\ qPc' = [qPc EXCEPT ![t] = "done"]

\* get(url) or post(url, data) is called
QCall(t) ==
    /\ qPc[t] = "idle"
    /\ \E m \in {0, 1}, u \in Urls :
          /\ qMethod' = [qMethod EXCEPT ![t] = m]
          /\ qUrl' = [qUrl EXCEPT ![t] = u]
    /\ qPc' = [qPc EXCEPT ![t] = "url"]
    /\ UNCHANGED <<qStatus, qLen, qResult, dUrl, dUp, dFetch, dData, cRx>>
    /\ UNCHANGED nonConcVars

\* self.at.command('AT+HTTPPARA="URL","<url>"') (and CONTENT for post): the
\* modem stores the URL; the lines waiting in the input are read up to the OK
QUrl(t) ==
    /\ qPc[t] = "url"
    /\ dUrl' = qUrl[t]
    /\ cRx' = <<>>
    /\ qPc' = [qPc EXCEPT ![t] = IF qMethod[t] = 1 THEN "data" ELSE "action"]
    /\ UNCHANGED <<qMethod, qUrl, qStatus, qLen, qResult, dUp, dFetch, dData>>
    /\ UNCHANGED nonConcVars

\* post(): AT+HTTPDATA, DOWNLOAD, the body, OK, in one lock hold
QData(t) ==
    /\ qPc[t] = "data"
    /\ dUp' = Payload(t)
    /\ cRx' = <<>>
    /\ qPc' = [qPc EXCEPT ![t] = "action"]
    /\ UNCHANGED <<qMethod, qUrl, qStatus, qLen, qResult, dUrl, dFetch, dData>>
    /\ UNCHANGED nonConcVars

\* self.at.command("AT+HTTPACTION=<method>"): the modem starts the request
\* with the URL and data it holds now, or answers ERROR while a request is
\* under way (ATError)
QAction(t) ==
    /\ qPc[t] = "action"
    /\ cRx' = <<>>
    /\ IF dFetch = NoFetch
       THEN /\ dFetch' = [method |-> qMethod[t], url |-> dUrl, up |-> dUp,
                       by |-> t]
            /\ qPc' = [qPc EXCEPT ![t] = "urc"]
            /\ UNCHANGED qResult
       ELSE /\ QEnd(t, [kind |-> "aterror"])
            /\ UNCHANGED dFetch
    /\ UNCHANGED <<qMethod, qUrl, qStatus, qLen, dUrl, dUp, dData>>
    /\ UNCHANGED nonConcVars

\* the modem ends its request: it holds the answer and sends
\* +HTTPACTION: <method>,200,<length>
ModemFetched ==
    /\ dFetch # NoFetch
    /\ LET data == ServerReply(dFetch.method, dFetch.url, dFetch.up)
       IN  /\ dData' = data
           /\ cRx' = Append(cRx, Urc(200, Len(data), dFetch.by))
    /\ dFetch' = NoFetch
    /\ UNCHANGED <<qMethod, qUrl, qPc, qStatus, qLen, qResult, dUrl, dUp>>
    /\ UNCHANGED nonConcVars

\* wait_for_urc("+HTTPACTION:") returns the first such line of the input
QUrc(t) ==
    /\ qPc[t] = "urc"
    /\ cRx # <<>>
    /\ qStatus' = [qStatus EXCEPT ![t] = Head(cRx).status]
    /\ qLen' = [qLen EXCEPT ![t] = Head(cRx).length]
    /\ cRx' = Tail(cRx)
    /\ IF Head(cRx).length = 0
       THEN QEnd(t, HttpResponse(Head(cRx).status, <<>>))
       ELSE /\ qPc' = [qPc EXCEPT ![t] = "read"]
            /\ UNCHANGED qResult
    /\ UNCHANGED <<qMethod, qUrl, dUrl, dUp, dFetch, dData>>
    /\ UNCHANGED nonConcVars

\* wait_for_urc raises at its deadline: HTTPError
QUrcTimeout(t) ==
    /\ qPc[t] = "urc"
    /\ cRx = <<>>
    /\ QEnd(t, HttpError("Timeout waiting for +HTTPACTION", None))
    /\ UNCHANGED <<qMethod, qUrl, qStatus, qLen, dUrl, dUp, dFetch, dData, cRx>>
    /\ UNCHANGED nonConcVars

\* _read_http_body(length): the modem sends the answer it holds now; the
\* reader takes expected_length bytes after the header line
QRead(t) ==
    /\ qPc[t] = "read"
    /\ LET raw == HttpReadReply(dData)
           bodyStart == Find(raw, T_CRLF, Find(raw, T_MARKER, 0)) + Len(T_CRLF)
       IN  QEnd(t, BodyResult(raw, bodyStart, qLen[t], qStatus[t]))
    /\ cRx' = <<>>
    /\ UNCHANGED <<qMethod, qUrl, qStatus, qLen, dUrl, dUp, dFetch, dData>>
    /\ UNCHANGED nonConcVars

\* ------------------------------------------------------------------------
\* SMS.send: text mode, character set, AT+CMGS handshake.  number and text
\* are sequences of code points; the bytes written are character codes.
\* ------------------------------------------------------------------------
MaxText == 2

\* '>', 'A', DEL, U+0080, the euro sign, an emoji outside the BMP, and a lone
\* surrogate (which a Python str can hold and UTF-16 cannot encode)
CodePoints == {62, 65, 127, 128, 8364, 128512, 55296}

\* the characters of the lines the modem sends, as code points
Ord(c) ==
    CASE c = " " -> 32 [] c = ">" -> 62 [] c = "A" -> 65 [] c = "E" -> 69
      [] c = "M" -> 77 [] c = "O" -> 79 [] c = "R" -> 82 [] c = "Y" -> 89
OrdAll(s) == [i \in 1..Len(s) |-> Ord(s[i])]
Chr(n) ==
    CASE n = 32 -> " " [] n = 62 -> ">" [] n = 65 -> "A" [] n = 69 -> "E"
      [] n = 77 -> "M" [] n = 79 -> "O" [] n = 82 -> "R" [] n = 89 -> "Y"
Echoable(text) ==
    \A i \in 1..Len(text) : text[i] \in {32, 62, 65, 69, 77, 79, 82, 89}
\* the line a modem with echo on sends back for the text typed after '>'
EchoOf(text) == [i \in 1..Len(text) |-> Chr(text[i])]

\* the texts sent: all short ones, and "MY ERROR"
TextSet == SeqsUpTo(CodePoints, MaxText) \cup {OrdAll(LineTextWithERROR)}
\* "1", "+1", and U+0661 (ARABIC-INDIC DIGIT ONE)
NumberSet == {<<49>>, <<43, 49>>, <<1633>>}

\* (a heuristic that takes Latin-1 for GSM)
NeedsUcs2Above255(text) == \E i \in 1..Len(text) : text[i] > 255

\* _needs_ucs2: Python ships no "gsm0338" codec, text.encode raises
\* LookupError and the fallback decides: any(ord(ch) > 127 for ch in text)
NeedsUcs2(text) == \E i \in 1..Len(text) : text[i] > 127

\* str.encode("utf-16-be"): the 16-bit code units, high byte first; a code
\* point above U+FFFF gives a surrogate pair
Utf16Units(cp) ==
    IF cp < 65536 THEN <<cp>>
    ELSE <<55296 + ((cp - 65536) \div 1024), 56320 + ((cp - 65536) % 1024)>>
RECURSIVE Utf16(_)
Utf16(text) ==
    IF text = <<>> THEN <<>> ELSE Utf16Units(Head(text)) \o Utf16(Tail(text))
\* a lone surrogate makes str.encode raise UnicodeEncodeError
Encodable(text) == \A i \in 1..Len(text) : text[i] \notin 55296..57343

\* bytes.hex(): two lowercase hex digits per byte
HexLower(d) == IF d < 10 THEN 48 + d ELSE 87 + d
HexOfUnit(u) ==
    <<HexLower(u \div 4096), HexLower((u \div 256) % 16),
      HexLower((u \div 16) % 16), HexLower(u % 16)>>
RECURSIVE HexOfUnits(_)
HexOfUnits(us) ==
    IF us = <<>> THEN <<>> ELSE HexOfUnit(Head(us)) \o HexOfUnits(Tail(us))

\* str.upper() on hex digits
Upper(s) == [i \in 1..Len(s) |-> IF s[i] \in 97..122 THEN s[i] - 32 ELSE s[i]]

\* x.encode("utf-16-be").hex().upper()
Ucs2Hex(text) == Upper(HexOfUnits(Utf16(text)))

\* str.encode("ascii", errors="ignore")
RECURSIVE AsciiIgnore(_)
AsciiIgnore(text) ==
    IF text = <<>> THEN <<>>
    ELSE (IF Head(text) < 128 THEN <<Head(text)>> ELSE <<>>)
             \o AsciiIgnore(Tail(text))

CtrlZ == 26

\* one write to the serial port: what it is, its bytes or its command, and
\* the lock hold it is made in
SmsWrite(kind, arg, hold) == [kind |-> kind, arg |-> arg, hold |-> hold]

\* command(cmd): wake CR, cmd, in one lock hold
SmsCommandWrites(cmd, hold) ==
    <<SmsWrite("wake", SleepWakeChar, hold), SmsWrite("cmd", cmd, hold)>>

\* the replies to AT+CMGF=1 and AT+CSCS: OK, ERROR, +CMS ERROR, or nothing
SmsCmdReplies == {<<T_OK>>, <<T_ERROR>>, <<LineCMS8>>, <<>>}

\* what the modem sends after AT+CMGS: nothing, the prompt, or an error
T_PROMPT == <<">">>
SmsPromptSet == {<<>>,
                 T_CRLF \o T_PROMPT \o <<" ">>,
                 T_CRLF \o T_ERROR \o T_CRLF,
                 T_CRLF \o LineCMS8 \o T_CRLF}

LineCMGS == <<"+", "C", "M", "G", "S", ":", " ", "5">>
\* what the modem sends after the body and Ctrl-Z: its final result (OK after
\* +CMGS: <mr>, ERROR, +CMS ERROR: <n>, or nothing), after the echo of the
\* text when echo is on
SmsFinalSet(text) ==
    LET finals == {<<LineCMGS, T_OK>>, <<T_ERROR>>, <<LineCMS8>>, <<>>}
    IN  finals \cup (IF Echoable(text) /\ text # <<>>
                     THEN {<<EchoOf(text)>> \o f : f \in finals} ELSE {})

\* the final result of a reply: its last line, none when the modem is silent
FinalResult(reply) == IF reply = <<>> THEN <<>> ELSE reply[Len(reply)]

\* send() returns True, or traps the exception and returns False
SmsEnd(sent) ==
    /\ smsResult' = IF sent THEN "True" ELSE "False"
    /\ smsPc' = "done"

\* send(number, text) is called
SmsCall ==
    /\ smsPc = "idle"
    /\ \E n \in NumberSet, t \in TextSet :
          /\ smsNumber' = n
          /\ smsText' = t
    /\ smsPc' = "cmgf"
    /\ UNCHANGED <<smsUcs2, smsNumberToSend, smsTextBytes, smsWire, smsHold,
                   smsPrompt, smsGot, smsFinal, smsExc, smsResult>>
    /\ UNCHANGED nonSmsVars

\* self.text_mode(): command("AT+CMGF=1")
SmsTextMode ==
    /\ smsPc = "cmgf"
    /\ smsHold' = smsHold + 1
    /\ smsWire' = smsWire \o SmsCommandWrites("AT+CMGF=1", smsHold + 1)
    /\ \E reply \in SmsCmdReplies :
          LET out == Exec(<<>>, reply, FALSE, TRUE).out
          IN  IF out.kind = "response"
              THEN /\ smsPc' = "cscs"
                   /\ UNCHANGED <<smsResult, smsExc>>
              ELSE /\ SmsEnd(FALSE)
                   /\ smsExc' = out.kind
    /\ UNCHANGED <<smsNumber, smsText, smsUcs2, smsNumberToSend, smsTextBytes,
                   smsPrompt, smsGot, smsFinal>>
    /\ UNCHANGED nonSmsVars

\* use_ucs2 = _needs_ucs2(text) or _needs_ucs2(number); _set_charset; then
\* the number and the text are encoded
SmsCharset ==
    /\ smsPc = "cscs"
    /\ LET ucs2 == NeedsUcs2(smsText) \/ NeedsUcs2(smsNumber)
           cmd == IF ucs2 THEN "AT+CSCS=\"UCS2\"" ELSE "AT+CSCS=\"GSM\""
       IN  /\ smsUcs2' = ucs2
           /\ smsHold' = smsHold + 1
           /\ smsWire' = smsWire \o SmsCommandWrites(cmd, smsHold + 1)
           /\ \E reply \in SmsCmdReplies :
                 LET out == Exec(<<>>, reply, FALSE, TRUE).out
                 IN  IF out.kind # "response"
                     THEN /\ SmsEnd(FALSE)
                          /\ smsExc' = out.kind
                          /\ UNCHANGED <<smsNumberToSend, smsTextBytes>>
                     ELSE IF ucs2 /\ ~(Encodable(smsNumber) /\ Encodable(smsText))
                     THEN /\ SmsEnd(FALSE)
                          /\ smsExc' = "UnicodeEncodeError"
                          /\ UNCHANGED <<smsNumberToSend, smsTextBytes>>
                     ELSE /\ smsNumberToSend' =
                                 IF ucs2 THEN Ucs2Hex(smsNumber) ELSE smsNumber
                          /\ smsTextBytes' =
                                 IF ucs2 THEN Ucs2Hex(smsText)
                                 ELSE AsciiIgnore(smsText)
                          /\ smsPc' = "cmgs"
                          /\ UNCHANGED <<smsResult, smsExc>>
    /\ UNCHANGED <<smsNumber, smsText, smsPrompt, smsGot, smsFinal>>
    /\ UNCHANGED nonSmsVars

\* with self.at.lock.acquire(): wake CR, sleep, AT+CMGS="<number>" CRLF
SmsCmgs ==
    /\ smsPc = "cmgs"
    /\ smsHold' = smsHold + 1
    /\ smsWire' = smsWire \o <<SmsWrite("wake", SleepWakeChar, smsHold + 1),
                               SmsWrite("cmgs", AsciiIgnore(smsNumberToSend),
                                        smsHold + 1)>>
    /\ \E prompt \in SmsPromptSet : smsPrompt' = prompt
    /\ smsGot' = FALSE
    /\ smsPc' = "prompt"
    /\ UNCHANGED <<smsNumber, smsText, smsUcs2, smsNumberToSend, smsTextBytes,
                   smsFinal, smsExc, smsResult>>
    /\ UNCHANGED nonSmsVars

\* (a sender that takes any chunk for the prompt)
GotPromptAnyChunk(chunk) == TRUE

\* if b">" in chunk
GotPrompt(chunk) == Contains(chunk, T_PROMPT)

\* chunk = ser.read(in_waiting or 1): any number of the bytes sent so far
SmsPromptRead ==
    /\ smsPc = "prompt"
    /\ smsPrompt # <<>>
    /\ \E k \in 1..Len(smsPrompt) :
          LET chunk == SubSeq(smsPrompt, 1, k)
          IN  /\ smsPrompt' = SubSeq(smsPrompt, k + 1, Len(smsPrompt))
              /\ smsGot' = (smsGot \/ Contains(chunk, T_PROMPT))
              /\ smsPc' = IF GotPrompt(chunk) THEN "body" ELSE "prompt"
    /\ UNCHANGED <<smsNumber, smsText, smsUcs2, smsNumberToSend, smsTextBytes,
                   smsWire, smsHold, smsFinal, smsExc, smsResult>>
    /\ UNCHANGED nonSmsVars

\* the 10 s deadline passes with got_prompt still False: SMSError
SmsPromptExpire ==
    /\ smsPc = "prompt"
    /\ SmsEnd(FALSE)
    /\ smsExc' = "SMSError"
    /\ UNCHANGED <<smsNumber, smsText, smsUcs2, smsNumberToSend, smsTextBytes,
                   smsWire, smsHold, smsPrompt, smsGot, smsFinal>>
    /\ UNCHANGED nonSmsVars

\* body = text_bytes + b"\x1A" is written in the same lock hold; then
\* _read_until_terminal(timeout_s) and _raise_if_error("AT+CMGS", resp)
SmsBody ==
    /\ smsPc = "body"
    /\ smsWire' = Append(smsWire,
                         SmsWrite("body", smsTextBytes \o <<CtrlZ>>, smsHold))
    /\ \E reply \in SmsFinalSet(smsText) :
          LET out == Exec(<<>>, reply, FALSE, TRUE).out
          IN  /\ smsFinal' = FinalResult(reply)
              /\ SmsEnd(out.kind = "response")
              /\ smsExc' = IF out.kind = "response" THEN "none" ELSE out.kind
    /\ UNCHANGED <<smsNumber, smsText, smsUcs2, smsNumberToSend, smsTextBytes,
                   smsHold, smsPrompt, smsGot>>
    /\ UNCHANGED nonSmsVars

\* ------------------------------------------------------------------------
\* Pure functions: _parse_cmgl_response with _try_decode_utf16_encoded_string
\* (sms.py), and get_signal with SignalQuality.bars (network.py)
\* ------------------------------------------------------------------------
MaxBodyLines == 2

T_CMGL_PREFIX == <<"+", "C", "M", "G", "L", ":", " ">>
T_SEP == <<",", "\"">>
T_QUOTE == "\""
T_STATUS == <<"R", "E", "C", " ", "R", "E", "A", "D">>
T_SENDER == <<"+", "1">>
T_DATETIME == <<"2", "4", "/", "0", "1", ",", "1", "0">>
HexDigits == Digits \cup {"a", "b", "c", "d", "e", "f"}

\* str.lower() on the letters of the model
LowerChar(c) ==
    CASE c = "A" -> "a" [] c = "B" -> "b" [] c = "C" -> "c" [] c = "D" -> "d"
      [] c = "E" -> "e" [] c = "F" -> "f" [] c = "K" -> "k" [] c = "O" -> "o"
      [] OTHER -> c
Lower(s) == [i \in 1..Len(s) |-> LowerChar(s[i])]

\* int(x, 16) of one hex digit
HexDigitVal(c) ==
    CASE c = "a" -> 10 [] c = "b" -> 11 [] c = "c" -> 12 [] c = "d" -> 13
      [] c = "e" -> 14 [] c = "f" -> 15 [] OTHER -> DigitVal(c)
\* chr(n) for the code points the lines of the model decode to; "?" stands
\* for every other character
ChrOf(n) ==
    CASE n = 10 -> "\n" [] n = 48 -> "0" [] n = 49 -> "1" [] n = 52 -> "4"
      [] n = 65 -> "A" [] n = 75 -> "K" [] n = 79 -> "O" [] OTHER -> "?"

\* _try_decode_utf16_encoded_string: a line whose stripped, lowercased form
\* is a run of hex digits of a length divisible by four is taken for UTF-16
\* hex and decoded, any other line is returned as it is
TryDecode(s) ==
    LET prepared == Lower(Strip(s))
    IN  IF Len(prepared) % 4 # 0 THEN s
        ELSE IF \E i \in 1..Len(prepared) : prepared[i] \notin HexDigits THEN s
        ELSE [i \in 1..(Len(prepared) \div 4) |->
                 ChrOf(HexDigitVal(prepared[4 * i - 3]) * 4096
                       + HexDigitVal(prepared[4 * i - 2]) * 256
                       + HexDigitVal(prepared[4 * i - 1]) * 16
                       + HexDigitVal(prepared[4 * i]))]

\* str.replace('\r', '\n')
ReplaceCR(s) == [i \in 1..Len(s) |-> IF s[i] = "\r" THEN "\n" ELSE s[i]]

\* str.split(sep)
RECURSIVE SplitOn(_, _)
SplitOn(s, sep) ==
    LET at == Find(s, sep, 0)
    IN  IF at = -1 THEN <<s>>
        ELSE <<SubSeq(s, 1, at)>>
                 \o SplitOn(SubSeq(s, at + Len(sep) + 1, Len(s)), sep)

\* str.strip('"')
RECURSIVE StripQuotes(_)
StripQuotes(s) ==
    IF s # <<>> /\ Head(s) = T_QUOTE THEN StripQuotes(Tail(s))
    ELSE IF s # <<>> /\ s[Len(s)] = T_QUOTE
    THEN StripQuotes(SubSeq(s, 1, Len(s) - 1))
    ELSE s

\* curr_entry is None
NoEntry == <<>>

\* result_dict[entry[0]] = entry: a dict keeps the position of a key it has
DictPut(d, entry) ==
    IF \E i \in 1..Len(d) : d[i][1] = entry[1]
    THEN [i \in 1..Len(d) |-> IF d[i][1] = entry[1] THEN entry ELSE d[i]]
    ELSE Append(d, entry)

\* dict equality: the same keys with the same values, in any order
DictEq(a, b) == {a[i] : i \in 1..Len(a)} = {b[i] : i \in 1..Len(b)}

\* the last entry is added when the loop is over
ParseEnd(d, cur) == IF cur # NoEntry THEN DictPut(d, cur) ELSE d

\* the loop of _parse_cmgl_response over the lines
RECURSIVE ParseLines(_, _, _)
ParseLines(lines, d, cur) ==
    IF lines = <<>> THEN ParseEnd(d, cur)
    ELSE LET line == Head(lines)
         IN  IF StartsWith(line, T_CMGL_PREFIX)
             THEN LET saved == ParseEnd(d, cur)
                      fields == SplitOn(line, T_SEP)
                  IN  IF Len(fields) # 5
                      THEN ParseLines(Tail(lines), saved, NoEntry)
                      ELSE LET f == [i \in 1..5 |-> StripQuotes(fields[i])]
                               id == SubSeq(f[1], Len(T_CMGL_PREFIX) + 1, Len(f[1]))
                           IN  ParseLines(Tail(lines), saved,
                                          <<id, f[2], f[3], f[4], f[5], <<>>>>)
             ELSE IF cur = NoEntry THEN ParseLines(Tail(lines), d, cur)
             ELSE IF Strip(line) = <<>> THEN ParseLines(Tail(lines), d, cur)
             ELSE IF Lower(Strip(line)) = <<"o", "k">> THEN ParseEnd(d, cur)
             ELSE ParseLines(Tail(lines), d,
                             [cur EXCEPT ![6] = @ \o TryDecode(line) \o <<"\n">>])

\* _parse_cmgl_response(cmgl_response_str)
ParseCmgl(text) == ParseLines(SplitOn(ReplaceCR(text), <<"\n">>), <<>>, NoEntry)

\* the headline of an entry on the wire; the alpha field is "" or left out
Headline(id, status, sender, alpha, datetime) ==
    T_CMGL_PREFIX \o id \o T_SEP \o status \o <<T_QUOTE>>
        \o T_SEP \o sender \o <<T_QUOTE, ",">> \o alpha
        \o T_SEP \o datetime \o <<T_QUOTE>>

\* the serializer of the idempotence property: each entry as its headline
\* '+CMGL: idx,"status","number","","datetime"' and its body, then OK
RECURSIVE Serialize(_)
Serialize(d) ==
    IF d = <<>> THEN T_OK \o T_CRLF
    ELSE Headline(d[1][1], d[1][2], d[1][3], <<T_QUOTE, T_QUOTE>>, d[1][5])
             \o T_CRLF \o d[1][6] \o Serialize(Tail(d))

\* the body lines of the responses: text, text that is hex of UTF-16, hex of
\* "OK", hex of a text that is hex itself, hex of a line feed
BodyLineSet == {<<"A">>,
                <<"0", "0", "4", "1">>,
                <<"0", "0", "4", "F", "0", "0", "4", "B">>,
                <<"0", "0", "3", "0", "0", "0", "3", "0", "0", "0", "3", "4", "0", "0", "3", "1">>,
                <<"0", "0", "0", "A">>}
RECURSIVE JoinCrlf(_)
JoinCrlf(ls) == IF ls = <<>> THEN <<>> ELSE Head(ls) \o T_CRLF \o JoinCrlf(Tail(ls))

\* one entry on the wire
WireEntry(id, alpha, body) ==
    Headline(id, T_STATUS, T_SENDER, alpha, T_DATETIME) \o T_CRLF \o JoinCrlf(body)

\* the responses to AT+CMGL="ALL": one entry, or two, then OK
CmglResponses ==
    LET first == {WireEntry(id, alpha, body) :
                     id \in {<<"1">>, <<"2">>},
                     alpha \in {<<T_QUOTE, T_QUOTE>>, <<>>},
                     body \in SeqsUpTo(BodyLineSet, MaxBodyLines)}
        second == {<<>>} \cup {WireEntry(id, <<T_QUOTE, T_QUOTE>>, <<line>>) :
                                  id \in {<<"1">>, <<"2">>}, line \in BodyLineSet}
    IN  {T_CRLF \o a \o b \o T_OK \o T_CRLF : a \in first, b \in second}

\* readAll(): the response is parsed
PParse ==
    /\ pPc = "input"
    /\ pParsed' = ParseCmgl(pR)
    /\ pPc' = "parsed"
    /\ UNCHANGED <<pR, pWire, pReparsed, gIn, gLine, gRssi, gBer, gBars, gPc>>
    /\ UNCHANGED nonPureVars

\* the parsed entries are written back in the wire grammar
PSerialize ==
    /\ pPc = "parsed"
    /\ pWire' = Serialize(pParsed)
    /\ pPc' = "serialized"
    /\ UNCHANGED <<pR, pParsed, pReparsed, gIn, gLine, gRssi, gBer, gBars, gPc>>
    /\ UNCHANGED nonPureVars

\* and parsed again
PReparse ==
    /\ pPc = "serialized"
    /\ pReparsed' = ParseCmgl(pWire)
    /\ pPc' = "reparsed"
    /\ UNCHANGED <<pR, pParsed, pWire, gIn, gLine, gRssi, gBer, gBars, gPc>>
    /\ UNCHANGED nonPureVars

\* message texts that read like result codes, and one that does not
ResultLikeLines == {<<"A">>, T_OK, <<"A", " ">> \o T_ERROR}

\* replies of the modem to AT+CMGL="ALL" with such texts: message 1, message
\* 2 or none, then the terminating OK
ReadAllReplies ==
    LET quoted == <<T_QUOTE, T_QUOTE>>
        second == {<<>>} \cup {WireEntry(<<"2">>, quoted, <<line>>) :
                                  line \in ResultLikeLines}
    IN  {T_CRLF \o WireEntry(<<"1">>, quoted, <<line>>) \o b \o T_OK \o T_CRLF :
            line \in ResultLikeLines, b \in second}

\* what readline() returns, call after call: each chunk ends with its \n
ReadlineChunks(reply) ==
    LET fields == SplitOn(reply, T_CRLF)
    IN  [i \in 1..(Len(fields) - 1) |-> fields[i] \o T_CRLF]

\* _read_until_terminal's loop: the chunks are taken up to the first line
\* that is a terminal
RECURSIVE UntilTerminal(_)
UntilTerminal(chunks) ==
    IF chunks = <<>> THEN <<>>
    ELSE IF IsTerminal(Strip(Head(chunks))) THEN <<Head(chunks)>>
    ELSE <<Head(chunks)>> \o UntilTerminal(Tail(chunks))

\* b"".join(chunks)
RECURSIVE Concat(_)
Concat(chunks) ==
    IF chunks = <<>> THEN <<>> ELSE Head(chunks) \o Concat(Tail(chunks))

\* readAll(): the reply of command('AT+CMGL="ALL"') is decoded and parsed;
\* ATTimeout and ATError end in {}
ReadAll(reply) ==
    LET chunks == UntilTerminal(ReadlineChunks(reply))
        raw == Concat(chunks)
        lines == SelectSeq([i \in 1..Len(chunks) |-> Strip(chunks[i])],
                           LAMBDA l : l # <<>>)
    IN  IF lines = <<>> \/ ~IsTerminal(lines[Len(lines)]) THEN <<>>
        ELSE IF HasError(lines) THEN <<>>
        ELSE ParseCmgl(raw)

\* readAll() on a reply of the modem
PReadAll ==
    /\ pPc = "reply"
    /\ pParsed' = ReadAll(pR)
    /\ pPc' = "readall"
    /\ UNCHANGED <<pR, pWire, pReparsed, gIn, gLine, gRssi, gBer, gBars, gPc>>
    /\ UNCHANGED nonPureVars

T_CSQ == <<"+", "C", "S", "Q", ":">>
\* the values of <rssi> and <ber> in a +CSQ reply
RssiSet == 0..31 \cup {99}
BerSet == 0..7 \cup {99}
CsqLine(rssi, ber) == T_CSQ \o <<" ">> \o Dec(rssi) \o <<",">> \o Dec(ber)

\* str.split(sep, 1)
SplitOnce(s, sep) ==
    LET at == Find(s, sep, 0)
    IN  IF at = -1 THEN <<s>>
        ELSE <<SubSeq(s, 1, at), SubSeq(s, at + Len(sep) + 1, Len(s))>>

\* get_signal(): the +CSQ: line is split at ':' and ',' and the two parts
\* are stripped and converted
GSignal ==
    /\ gPc = "input"
    /\ StartsWith(gLine, T_CSQ)
    /\ LET rest == SplitOnce(gLine, <<":">>)[2]
           parts == SplitOnce(rest, <<",">>)
       IN  /\ gRssi' = ParseInt(Strip(parts[1]))
           /\ gBer' = ParseInt(Strip(parts[2]))
    /\ gPc' = "quality"
    /\ UNCHANGED <<pR, pParsed, pWire, pReparsed, pPc, gIn, gLine, gBars>>
    /\ UNCHANGED nonPureVars

\* (thresholds that belong to the lower class)
BarsInclusive(rssi) ==
    IF rssi = 99 \/ rssi <= 2 THEN 0
    ELSE IF rssi <= 10 THEN 1
    ELSE IF rssi <= 15 THEN 2
    ELSE IF rssi <= 20 THEN 3
    ELSE IF rssi <= 25 THEN 4
    ELSE 5

\* SignalQuality.bars
Bars(rssi) ==
    IF rssi = 99 \/ rssi < 2 THEN 0
    ELSE IF rssi < 10 THEN 1
    ELSE IF rssi < 15 THEN 2
    ELSE IF rssi < 20 THEN 3
    ELSE IF rssi < 25 THEN 4
    ELSE 5

\* bars() is called on the SignalQuality read
GBars ==
    /\ gPc = "quality"
    /\ gBars' = Bars(gRssi)
    /\ gPc' = "done"
    /\ UNCHANGED <<pR, pParsed, pWire, pReparsed, pPc, gIn, gLine, gRssi, gBer>>
    /\ UNCHANGED nonPureVars

\* ------------------------------------------------------------------------
\* Blocking operations against the clock: command(), wait_for_urc(), the
\* body read and the prompt waits, attach(), wait_registered() and the
\* best-effort operations. Time is counted in seconds since the call. A read
\* of the serial port takes no time of its own: time passes by Tick, between
\* any two steps, for as long as some deadline or sleep of the operation is
\* still ahead (later ticks change no comparison the code makes).

\* bound of the timeout_s arguments
MaxTimeout == 2

\* time.sleep(1.0) between two polls
PollSleep == 1
\* deadline of _read_http_body
BodyDeadline == 30
\* deadline of the '>' prompt of AT+CMGS
SmsPromptDeadline == 10
\* httpdata_timeout_ms / 1000.0 + 5.0
HttpDataGrace == 5
\* _read_until_terminal(timeout_s=10) after the POST body
HttpDataOkTimeout == 10

OpSet == {"command", "wait_for_urc", "body", "http_data", "sms_send",
          "attach", "wait_registered",
          "term", "close", "power_down", "cleanup"}
\* the operations that wrap their command in try: ... except: pass
BestEffort == {"term", "close", "power_down", "cleanup"}
PollOps == {"attach", "wait_registered"}
WaitOps == {"wait_for_urc", "body", "http_data", "sms_send"}

\* command(cmd, timeout_s, retries=..., expect_ok=...)
Cmd(c, t, r, e) == [cmd |-> c, timeout |-> t, retries |-> r, expect_ok |-> e]

BestEffortCmd(o) ==
    CASE o = "term" -> Cmd("AT+HTTPTERM", 5, 0, FALSE)
      [] o = "close" -> Cmd("AT+SAPBR=0", 20, 0, TRUE)
      [] o = "power_down" -> Cmd("AT+CPOWD", 5, 0, FALSE)
      [] o = "cleanup" -> Cmd("AT+SAPBR=0", 5, 0, FALSE)

\* the commands of one poll
AttachCmd == Cmd("AT+CGATT=1", 5, 1, TRUE)
AttachQuery == Cmd("AT+CGATT?", 3, 0, TRUE)
RegQuery == Cmd("AT+CREG?", 3, 1, TRUE)

\* what one readline() gives: nothing within the read timeout, a line that
\* is not terminal, the awaited data line (+CGATT: 1, +CREG: 0,1), OK, an
\* error line (ERROR, +CME ERROR, +CMS ERROR), or another line with ERROR
LineKinds == {"none", "data", "match", "ok", "error", "errtext"}
\* what one read() of a wait loop gives: nothing, bytes without the awaited
\* text, bytes that complete it, or (body read) a marker without its CRLF
ChunkKinds == {"none", "data", "match", "bad"}

\* (a clock whose deadlines never come)
ExpiredNever(now, deadline) == FALSE

\* not (time.time() < deadline)
Expired(now, deadline) == now >= deadline

\* what command() does with the outcome of its last attempt
Raised(out) ==
    CASE out = "resp" -> "returned"
      [] out = "aterror" -> "ATError"
      [] out = "attimeout" -> "ATTimeoutError"

\* (a wrapper that lets the error through)
PropagatingEnd(out) == Raised(out)

\* try: command(...) except: pass
BestEffortEnd(out) == "returned"

\* (attach() trusting any reply to AT+CGATT?)
AttachDoneAnyReply(out, match) == out = "resp"

\* any("+CGATT: 1" in line for line in resp.lines) on the reply to AT+CGATT?
AttachDone(out, match) == out = "resp" /\ match

\* a +CREG: / +CGREG: line whose last field is 1 or 5
RegDone(out, match) == out = "resp" /\ match

\* the error after the loop
LoopError(o) == IF o = "attach" THEN "GPRSError" ELSE "NetworkError"

\* the length of a wait loop
WaitSeconds(o, t) ==
    CASE o = "body" -> BodyDeadline
      [] o = "http_data" -> t + HttpDataGrace
      [] o = "sms_send" -> SmsPromptDeadline

\* how a wait loop ends at its deadline; send() catches its SMSError and
\* returns False
WaitError(o) ==
    CASE o = "wait_for_urc" -> "ATTimeoutError"
      [] o \in {"body", "http_data"} -> "HTTPError"
      [] o = "sms_send" -> "returned"

\* a call of command(), or of _read_until_terminal by a caller that holds
\* the lock
StartCommand(c, held) ==
    /\ cArgs' = c
    /\ cHeld' = held
    /\ cAttempt' = 0
    /\ cMatch' = FALSE
    /\ cOut' = "none"
    /\ cPc' = IF held THEN "read" ELSE "lock"
    /\ cDeadline' = IF held THEN oNow + c.timeout ELSE 0

\* the caller takes the outcome
TakeOutcome ==
    /\ cPc' = "idle"
    /\ UNCHANGED <<cArgs, cHeld, cAttempt, cDeadline, cMatch, cOut>>

\* command(): with self.lock.acquire(), wake, write, deadline of the read
CAcquire ==
    /\ cPc = "lock"
    /\ oLock = "free"
    /\ oLock' = "self"
    /\ cDeadline' = oNow + cArgs.timeout
    /\ cMatch' = FALSE
    /\ cPc' = "read"
    /\ UNCHANGED <<cArgs, cHeld, cAttempt, cOut>>
    /\ UNCHANGED <<oOp, oArgs, oPc, oNow, oDeadline, oWake, oPhase, oIter,
                   oSaw, oResult>>
    /\ UNCHANGED nonOpsVars

\* command() ends with out; the lock is released unless the caller holds it
CEnd(out) ==
    /\ cOut' = out
    /\ cPc' = "ret"
    /\ oLock' = IF cHeld THEN oLock ELSE "free"
    /\ UNCHANGED <<cArgs, cHeld, cAttempt, cDeadline>>

\* one turn of the loop of _read_until_terminal before the deadline
CRead ==
    /\ cPc = "read"
    /\ ~Expired(oNow, cDeadline)
    /\ \E line \in LineKinds :
          CASE line = "none" ->
                 UNCHANGED <<cPc, cArgs, cHeld, cAttempt, cDeadline, cMatch,
                             cOut, oLock, oSaw>>
            [] line = "data" ->
                 /\ oSaw' = TRUE
                 /\ UNCHANGED <<cPc, cArgs, cHeld, cAttempt, cDeadline,
                                cMatch, cOut, oLock>>
            [] line = "match" ->
                 /\ cMatch' = TRUE
                 /\ oSaw' = TRUE
                 /\ UNCHANGED <<cPc, cArgs, cHeld, cAttempt, cDeadline, cOut,
                                oLock>>
            [] line = "ok" ->
                 CEnd("resp") /\ UNCHANGED <<cMatch, oSaw>>
            [] line = "error" ->
                 /\ CEnd(IF cArgs.expect_ok THEN "aterror" ELSE "resp")
                 /\ UNCHANGED <<cMatch, oSaw>>
            [] line = "errtext" ->
                 CEnd("resp") /\ UNCHANGED <<cMatch, oSaw>>
    /\ UNCHANGED <<oOp, oArgs, oPc, oNow, oDeadline, oWake, oPhase, oIter,
                   oResult>>
    /\ UNCHANGED nonOpsVars

\* the deadline of _read_until_terminal has come: ATTimeoutError, which
\* command() answers with its next attempt (the lock is released and taken
\* again) or lets through
CExpire ==
    /\ cPc = "read"
    /\ Expired(oNow, cDeadline)
    /\ IF cAttempt < cArgs.retries
       THEN /\ cAttempt' = cAttempt + 1
            /\ cPc' = "lock"
            /\ oLock' = "free"
            /\ UNCHANGED <<cArgs, cHeld, cDeadline, cOut>>
       ELSE CEnd("attimeout")
    /\ UNCHANGED <<cMatch, oSaw>>
    /\ UNCHANGED <<oOp, oArgs, oPc, oNow, oDeadline, oWake, oPhase, oIter,
                   oResult>>
    /\ UNCHANGED nonOpsVars

\* an operation is called
OCall ==
    /\ oPc = "idle"
    /\ \E o \in OpSet, t \in 0..MaxTimeout, r \in 0..1, e \in BOOLEAN :
          /\ o = "command" \/ (r = 0 /\ e = TRUE)
          /\ o \in {"body"} \cup BestEffort => t = 0
          /\ oOp' = o
          /\ oArgs' = Cmd(IF o = "command" THEN "AT" ELSE "", t, r, e)
          /\ oDeadline' = IF o \in PollOps \cup {"wait_for_urc"}
                          THEN oNow + t ELSE 0
          /\ IF o = "command"
             THEN StartCommand(Cmd("AT", t, r, e), FALSE) /\ oPc' = "cmd"
             ELSE IF o \in BestEffort
             THEN StartCommand(BestEffortCmd(o), FALSE) /\ oPc' = "cmd"
             ELSE /\ oPc' = IF o \in PollOps THEN "head" ELSE "lock"
                  /\ UNCHANGED <<cPc, cArgs, cHeld, cAttempt, cDeadline,
                                 cMatch, cOut>>
    /\ UNCHANGED <<oNow, oWake, oPhase, oIter, oSaw, oResult, oLock>>
    /\ UNCHANGED nonOpsVars

\* the command of a plain or best-effort operation is over
OCmdDone ==
    /\ oPc = "cmd"
    /\ cPc = "ret"
    /\ oResult' = IF oOp \in BestEffort THEN BestEffortEnd(cOut)
                  ELSE Raised(cOut)
    /\ oPc' = "done"
    /\ TakeOutcome
    /\ UNCHANGED <<oOp, oArgs, oNow, oDeadline, oWake, oPhase, oIter, oSaw,
                   oLock>>
    /\ UNCHANGED nonOpsVars

\* one entry of oIter
Iteration(begin, end, query, out, match) ==
    [begin |-> begin, end |-> end, query |-> query, out |-> out,
     match |-> match]

\* the entry of the iteration under way is completed
CloseIteration(query) ==
    oIter' = [oIter EXCEPT ![Len(oIter)] =
                 Iteration(@.begin, oNow, query, cOut, cMatch)]

\* while time.time() < deadline: the first command of a poll, or the error
\* after the loop
OLoopHead ==
    /\ oPc = "head"
    /\ IF ~Expired(oNow, oDeadline)
       THEN /\ StartCommand(IF oOp = "attach" THEN AttachCmd ELSE RegQuery,
                            FALSE)
            /\ oPc' = "poll1"
            /\ oIter' = Append(oIter,
                               Iteration(oNow, -1, FALSE, "none", FALSE))
            /\ UNCHANGED oResult
       ELSE /\ oResult' = LoopError(oOp)
            /\ oPc' = "done"
            /\ UNCHANGED <<oIter, cPc, cArgs, cHeld, cAttempt, cDeadline,
                           cMatch, cOut>>
    /\ UNCHANGED <<oOp, oArgs, oNow, oDeadline, oWake, oPhase, oSaw, oLock>>
    /\ UNCHANGED nonOpsVars

\* the poll failed or did not show what is awaited: except: pass, then
\* time.sleep(1.0)
PollSleeps(query) ==
    /\ oPc' = "sleep"
    /\ oWake' = oNow + PollSleep
    /\ CloseIteration(query)
    /\ TakeOutcome
    /\ UNCHANGED oResult

\* the poll showed what is awaited: return
PollReturns(query) ==
    /\ oPc' = "done"
    /\ oResult' = "returned"
    /\ CloseIteration(query)
    /\ TakeOutcome
    /\ UNCHANGED oWake

\* the first command of a poll is over: AT+CGATT=1 of attach(), or the
\* query of wait_registered()
OPoll1Done ==
    /\ oPc = "poll1"
    /\ cPc = "ret"
    /\ IF oOp = "attach"
       THEN IF cOut = "resp"
            THEN /\ StartCommand(AttachQuery, FALSE)
                 /\ oPc' = "poll2"
                 /\ UNCHANGED <<oIter, oWake, oResult>>
            ELSE PollSleeps(FALSE)
       ELSE IF RegDone(cOut, cMatch)
            THEN PollReturns(TRUE)
            ELSE PollSleeps(TRUE)
    /\ UNCHANGED <<oOp, oArgs, oNow, oDeadline, oPhase, oSaw, oLock>>
    /\ UNCHANGED nonOpsVars

\* AT+CGATT? of attach() is over
OPoll2Done ==
    /\ oPc = "poll2"
    /\ cPc = "ret"
    /\ IF AttachDone(cOut, cMatch)
       THEN PollReturns(TRUE)
       ELSE PollSleeps(TRUE)
    /\ UNCHANGED <<oOp, oArgs, oNow, oDeadline, oPhase, oSaw, oLock>>
    /\ UNCHANGED nonOpsVars

\* time.sleep(1.0) is over
OSleepOver ==
    /\ oPc = "sleep"
    /\ oNow >= oWake
    /\ oPc' = "head"
    /\ UNCHANGED <<oOp, oArgs, oNow, oDeadline, oWake, oPhase, oIter, oSaw,
                   oResult, oLock>>
    /\ UNCHANGED <<cPc, cArgs, cHeld, cAttempt, cDeadline, cMatch, cOut>>
    /\ UNCHANGED nonOpsVars

\* with self.at.lock.acquire() of a wait loop; wait_for_urc has its deadline
\* from before the lock, the others set it now
OLockAcquire ==
    /\ oPc = "lock"
    /\ oLock = "free"
    /\ oLock' = "self"
    /\ oPc' = "wait"
    /\ oPhase' = 1
    /\ oDeadline' = IF oOp = "wait_for_urc" THEN oDeadline
                    ELSE oNow + WaitSeconds(oOp, oArgs.timeout)
    /\ UNCHANGED <<oOp, oArgs, oNow, oWake, oIter, oSaw, oResult>>
    /\ UNCHANGED <<cPc, cArgs, cHeld, cAttempt, cDeadline, cMatch, cOut>>
    /\ UNCHANGED nonOpsVars

\* a wait loop ends the operation with result; the lock is released
WaitEnds(result) ==
    /\ oResult' = result
    /\ oPc' = "done"
    /\ oLock' = "free"
    /\ UNCHANGED <<oPhase, cPc, cArgs, cHeld, cAttempt, cDeadline, cMatch,
                   cOut>>

\* one turn of a wait loop before its deadline
OWaitRead ==
    /\ oPc = "wait"
    /\ ~Expired(oNow, oDeadline)
    /\ \E chunk \in ChunkKinds :
          CASE chunk = "none" ->
                 UNCHANGED <<oPc, oPhase, oSaw, oResult, oLock, cPc, cArgs,
                             cHeld, cAttempt, cDeadline, cMatch, cOut>>
            [] chunk = "data" ->
                 /\ oSaw' = TRUE
                 /\ UNCHANGED <<oPc, oPhase, oResult, oLock, cPc, cArgs,
                                cHeld, cAttempt, cDeadline, cMatch, cOut>>
            [] chunk = "bad" ->
                 /\ oOp = "body" /\ oPhase = 1
                 /\ WaitEnds("HTTPError")
                 /\ oSaw' = TRUE
            [] chunk = "match" ->
                 /\ oSaw' = TRUE
                 /\ IF oOp = "wait_for_urc" \/ (oOp = "body" /\ oPhase = 2)
                    THEN WaitEnds("returned")
                    ELSE IF oOp = "body"
                    THEN /\ oPhase' = 2
                         /\ UNCHANGED <<oPc, oResult, oLock, cPc, cArgs,
                                        cHeld, cAttempt, cDeadline, cMatch,
                                        cOut>>
                    ELSE /\ StartCommand(
                               Cmd("", IF oOp = "http_data"
                                       THEN HttpDataOkTimeout
                                       ELSE oArgs.timeout, 0, TRUE), TRUE)
                         /\ oPc' = "final"
                         /\ UNCHANGED <<oPhase, oResult, oLock>>
    /\ UNCHANGED <<oOp, oArgs, oNow, oDeadline, oWake, oIter>>
    /\ UNCHANGED nonOpsVars

\* the deadline of a wait loop has come
OWaitExpire ==
    /\ oPc = "wait"
    /\ Expired(oNow, oDeadline)
    /\ WaitEnds(WaitError(oOp))
    /\ UNCHANGED <<oOp, oArgs, oNow, oDeadline, oWake, oIter, oSaw>>
    /\ UNCHANGED nonOpsVars

\* _read_until_terminal and _raise_if_error after the body of a POST or of
\* a message; send() returns True or, on any exception, False
OFinalDone ==
    /\ oPc = "final"
    /\ cPc = "ret"
    /\ oResult' = IF oOp = "sms_send" THEN "returned" ELSE Raised(cOut)
    /\ oPc' = "done"
    /\ oLock' = "free"
    /\ TakeOutcome
    /\ UNCHANGED <<oOp, oArgs, oNow, oDeadline, oWake, oPhase, oIter, oSaw>>
    /\ UNCHANGED nonOpsVars

\* the deadlines and the sleep the operation has ahead of it
Ahead ==
    (IF oPc \in {"head", "poll1", "poll2", "wait"}
        \/ (oPc = "lock" /\ oOp = "wait_for_urc")
     THEN {oDeadline} ELSE {})
    \cup (IF cPc = "read" THEN {cDeadline} ELSE {})
    \cup (IF oPc = "sleep" THEN {oWake} ELSE {})

\* a second passes
Tick ==
    /\ oPc \notin {"idle", "done"}
    /\ \E d \in Ahead : oNow < d
    /\ oNow' = oNow + 1
    /\ UNCHANGED <<oOp, oArgs, oPc, oDeadline, oWake, oPhase, oIter, oSaw,
                   oResult, oLock>>
    /\ UNCHANGED <<cPc, cArgs, cHeld, cAttempt, cDeadline, cMatch, cOut>>
    /\ UNCHANGED nonOpsVars

\* another thread or process takes the modem lock
OtherAcquire ==
    /\ oPc \notin {"idle", "done"}
    /\ oLock = "free"
    /\ oLock' = "other"
    /\ UNCHANGED <<oOp, oArgs, oPc, oNow, oDeadline, oWake, oPhase, oIter,
                   oSaw, oResult>>
    /\ UNCHANGED <<cPc, cArgs, cHeld, cAttempt, cDeadline, cMatch, cOut>>
    /\ UNCHANGED nonOpsVars

\* and releases it
OtherRelease ==
    /\ oLock = "other"
    /\ oLock' = "free"
    /\ UNCHANGED <<oOp, oArgs, oPc, oNow, oDeadline, oWake, oPhase, oIter,
                   oSaw, oResult>>
    /\ UNCHANGED <<cPc, cArgs, cHeld, cAttempt, cDeadline, cMatch, cOut>>
    /\ UNCHANGED nonOpsVars

\* ------------------------------------------------------------------------
\* Network.wait_registered, poll by poll, against the clock.  A poll is one
\* command(cmd, timeout_s=3, retries=1): it returns the lines of a reply,
\* raises ATError or, after two attempts of three seconds, ATTimeoutError.

\* bound of timeout_s
MaxRegTimeout == 3

\* command(cmd, timeout_s=3, retries=1): two attempts of three seconds
RegTimeoutSeconds == 6
\* the time a reply can take (a choice of the modem)
ReplySeconds == {0, 2}

L_CREG_ROAMING == <<"+", "C", "R", "E", "G", ":", " ", "0", ",", "5">>
L_CREG_URC == <<"+", "C", "R", "E", "G", ":", " ", "1">>
L_CREG_LOC == <<"+", "C", "R", "E", "G", ":", " ", "2", ",", "1", ",", "\"", "A", "1", "\"">>
L_CGREG_ROAMING == <<"+", "C", "G", "R", "E", "G", ":", " ", "0", ",", "5">>

\* the replies to a registration query: resp.lines of the command
RegReplies ==
    { <<T_OK>>,
      <<L_CREG_HOME, T_OK>>, <<L_CREG_SEARCHING, T_OK>>,
      <<L_CREG_ROAMING, T_OK>>, <<L_CREG_URC, T_OK>>, <<L_CREG_LOC, T_OK>>,
      <<L_CGREG_HOME, T_OK>>, <<L_CGREG_SEARCHING, T_OK>>,
      <<L_CGREG_ROAMING, T_OK>>,
      <<L_CREG_SEARCHING, L_CREG_HOME, T_OK>>,
      <<L_CREG_LOC, L_CREG_HOME, T_OK>> }

\* cmd = "AT+CGREG?" if gprs else "AT+CREG?"
RegCmd(gprs) == IF gprs THEN "AT+CGREG?" ELSE "AT+CREG?"

\* (a loop that returns on any reply)
PollRegisteredAnyReply(out, lines) == out = "resp"

\* the try block of one poll: the command returned and the loop over its
\* lines found a registration line with stat 1 or 5
PollRegistered(out, lines) == out = "resp" /\ Registered(lines)

\* wait_registered(timeout_s, gprs) is called
WCall ==
    /\ wPc = "idle"
    /\ \E g \in BOOLEAN, t \in 0..MaxRegTimeout :
          /\ wGprs' = g
          /\ wTimeout' = t
    /\ wPc' = "head"
    /\ UNCHANGED <<wNow, wCmds, wLast, wFailed, wResult>>
    /\ UNCHANGED nonRegVars

\* while time.time() < deadline: one poll; return, or except: pass and
\* time.sleep(1.0)
WPoll ==
    /\ wPc = "head"
    /\ wNow < wTimeout
    /\ wCmds' = wCmds \cup {RegCmd(wGprs)}
    /\ \E out \in {"resp", "aterror", "attimeout"} :
       \E lines \in (IF out = "resp" THEN RegReplies ELSE {<<>>}) :
       \E d \in (IF out = "attimeout" THEN {RegTimeoutSeconds}
                 ELSE ReplySeconds) :
          /\ wLast' = [out |-> out, lines |-> lines]
          /\ IF PollRegistered(out, lines)
             THEN /\ wResult' = "returned"
                  /\ wPc' = "done"
                  /\ wNow' = wNow + d
                  /\ UNCHANGED wFailed
             ELSE /\ wFailed' = TRUE
                  /\ wNow' = wNow + d + PollSleep
                  /\ UNCHANGED <<wResult, wPc>>
    /\ UNCHANGED <<wGprs, wTimeout>>
    /\ UNCHANGED nonRegVars

\* the deadline has come: raise NetworkError
WRaise ==
    /\ wPc = "head"
    /\ ~(wNow < wTimeout)
    /\ wResult' = "NetworkError"
    /\ wPc' = "done"
    /\ UNCHANGED <<wGprs, wTimeout, wNow, wCmds, wLast, wFailed>>
    /\ UNCHANGED nonRegVars

\* ------------------------------------------------------------------------
\* Replies and the writes they answer: calls of command() one after the
\* other against a modem (echo off) that answers each command it receives,
\* at its own pace
\* ------------------------------------------------------------------------
MaxCalls == 2
MaxSends == 3

L_CSQ == <<"+", "C", "S", "Q", ":", " ", "1", ",", "0">>
\* what the modem answers to one command: nothing, OK, or a line and OK
AnswerSet == {<<>>, <<T_OK>>, <<L_CSQ, T_OK>>}

\* the lines of an answer, each with the number of the write it answers
Tagged(send, lines) == [i \in 1..Len(lines) |-> <<send, lines[i]>>]

\* command() is called, after the call before it has ended
LCall ==
    /\ lPc \in {"idle", "done"}
    /\ lCall < MaxCalls
    /\ lCall' = lCall + 1
    /\ \E r \in 0..MaxRetries : lRetries' = r
    /\ lAttempt' = 0
    /\ lPc' = "send"
    /\ UNCHANGED <<lSent, lOwn, lModem, lIn, lLines, lResp>>
    /\ UNCHANGED nonLateVars

\* with self.lock.acquire(): the command is written; the modem will answer
\* it. _read_until_terminal starts with empty lines; the serial input is
\* left as it is
LSend ==
    /\ lPc = "send"
    /\ lSent < MaxSends
    /\ lSent' = lSent + 1
    /\ lOwn' = lSent + 1
    /\ \E answer \in AnswerSet :
          lModem' = lModem \o Tagged(lSent + 1, answer)
    /\ lLines' = <<>>
    /\ lPc' = "read"
    /\ UNCHANGED <<lCall, lRetries, lAttempt, lIn, lResp>>
    /\ UNCHANGED nonLateVars

\* a line of the modem arrives in the serial input
LArrive ==
    /\ lModem # <<>>
    /\ lIn' = Append(lIn, Head(lModem))
    /\ lModem' = Tail(lModem)
    /\ UNCHANGED <<lCall, lRetries, lAttempt, lPc, lSent, lOwn, lLines, lResp>>
    /\ UNCHANGED nonLateVars

\* one turn of the loop of _read_until_terminal: readline() gives the next
\* line of the serial input, whatever it answers; a terminal line ends
\* command() with the Response
LReadLine ==
    /\ lPc = "read"
    /\ lIn # <<>>
    /\ LET tagged == Head(lIn)
           lines == Append(lLines, tagged)
       IN  /\ lLines' = lines
           /\ IF IsTerminal(tagged[2])
              THEN /\ lPc' = "done"
                   /\ lResp' = [kind |-> "response", send |-> lOwn,
                                lines |-> lines]
              ELSE UNCHANGED <<lPc, lResp>>
    /\ lIn' = Tail(lIn)
    /\ UNCHANGED <<lCall, lRetries, lAttempt, lSent, lOwn, lModem>>
    /\ UNCHANGED nonLateVars

\* the deadline passes before a terminal line was read: ATTimeoutError, and
\* command() writes again while attempt < retries
LExpire ==
    /\ lPc = "read"
    /\ IF RetryAfterTimeout(lAttempt, lRetries)
       THEN /\ lAttempt' = lAttempt + 1
            /\ lPc' = "send"
            /\ UNCHANGED lResp
       ELSE /\ lResp' = [kind |-> "timeout", send |-> lOwn, lines |-> <<>>]
            /\ lPc' = "done"
            /\ UNCHANGED lAttempt
    /\ UNCHANGED <<lCall, lRetries, lSent, lOwn, lModem, lIn, lLines>>
    /\ UNCHANGED nonLateVars

\* ------------------------------------------------------------------------
\* Threads, processes, file descriptions
\* ------------------------------------------------------------------------
Procs == {"A", "B"}
Threads == {"T1", "T2"}
Proc(t) == procOf[t]

NoThread == "none"
NoFd == <<>>
NoIO == [t |-> NoThread, kind |-> "none"]

\* Two threads compete for the modem through the lock when they share one
\* CombinedLock (same process) or when both processes use the lockfile.
Conflict(t, u) ==
    t # u /\ (Proc(t) = Proc(u) \/ (useFile[Proc(t)] /\ useFile[Proc(u)]))

\* ------------------------------------------------------------------------
\* The locked operations, as the sequence of lock and serial steps they take
\* ------------------------------------------------------------------------
\* a command() that gives the lock up between its write and its read
CommandScriptUnlockedRead(wake) ==
    <<"acquire">> \o (IF wake THEN <<"w_wake">> ELSE <<>>)
        \o <<"w_cmd", "release", "acquire", "r_terminal", "release">>

CommandScript(wake) ==
    <<"acquire">> \o (IF wake THEN <<"w_wake">> ELSE <<>>)
        \o <<"w_cmd", "r_terminal", "release">>

\* a wait_for_urc() that reads before it takes the lock
WaitForUrcScriptUnlocked == <<"r_urc", "acquire", "release">>

WaitForUrcScript == <<"acquire", "r_urc", "release">>

FlushInputScript == <<"acquire", "reset", "release">>

ReadHttpBodyScript ==
    <<"acquire", "w_wake", "w_cmd", "r_marker", "r_body", "r_drain", "release">>

\* an HTTPDATA upload done in two lock holds
HttpDataScriptSplit ==
    <<"acquire", "w_cmd", "r_download", "release",
      "acquire", "w_body", "r_terminal", "release">>

HttpDataScript ==
    <<"acquire", "w_cmd", "r_download", "w_body", "r_terminal", "release">>

SmsSendScript ==
    <<"acquire", "w_wake", "w_cmd", "r_prompt", "w_body", "r_terminal", "release">>

\* A caller that enters acquire() while already inside an acquire() scope.
NestedScript == <<"acquire", "acquire", "reset", "release", "reset", "release">>

Script(o) ==
    CASE o.name = "command"        -> CommandScript(o.wake)
      [] o.name = "wait_for_urc"   -> WaitForUrcScript
      [] o.name = "flush_input"    -> FlushInputScript
      [] o.name = "read_http_body" -> ReadHttpBodyScript
      [] o.name = "httpdata"       -> HttpDataScript
      [] o.name = "sms_send"       -> SmsSendScript
      [] o.name = "nested"         -> NestedScript

Handshakes == {"read_http_body", "httpdata", "sms_send"}

OpKinds ==
    [name : {"command"}, wake : BOOLEAN, retries : 0..MaxRetries]
    \cup [name : {"wait_for_urc", "flush_input", "read_http_body", "httpdata",
                  "sms_send", "nested"},
          wake : {FALSE}, retries : {0}]

NoOp == [name |-> "none", wake |-> FALSE, retries |-> 0]

IsWrite(k) == k \in {"w_wake", "w_cmd", "w_body"}
IsRead(k) == k \in {"r_terminal", "r_urc", "r_marker", "r_body", "r_drain",
                    "r_download", "r_prompt", "reset"}
\* reads that raise when the awaited bytes do not arrive by the deadline
CanFail(k) == k \in {"r_terminal", "r_urc", "r_marker", "r_body",
                     "r_download", "r_prompt"}

IsIO(s, i) == IsWrite(s[i]) \/ IsRead(s[i])
\* the index of the last serial access of a script
LastIO(s) == CHOOSE i \in 1..Len(s) :
                 IsIO(s, i) /\ \A j \in (i+1)..Len(s) : ~IsIO(s, j)

\* ------------------------------------------------------------------------
\* CombinedLock
\* ------------------------------------------------------------------------
\* threading.RLock: free, or already owned by the caller
CanTLock(t) == tlockOwner[Proc(t)] \in {NoThread, t}

\* fcntl.flock(fd, LOCK_EX): blocks while another open file description
\* holds the lock, also one of the same process
\* (a shared or non-blocking lock would let every caller through)
CanFlockShared(fd) == TRUE

CanFlock(fd) == flockHolder = NoFd \/ flockHolder = fd

\* the thread holds both layers of its process's CombinedLock
Held(t) ==
    /\ tlockOwner[Proc(t)] = t
    /\ useFile[Proc(t)] => (flockHolder # NoFd /\ flockHolder[1] = t)

\* "with self._tlock:" at the start of acquire()
TLockAcquire(t) ==
    /\ pc[t] = "run" /\ ip[t] <= Len(Script(op[t]))
    /\ Script(op[t])[ip[t]] = "acquire"
    /\ CanTLock(t)
    /\ tlockOwner' = [tlockOwner EXCEPT ![Proc(t)] = t]
    /\ tlockCount' = [tlockCount EXCEPT ![Proc(t)] = @ + 1]
    /\ IF useFile[Proc(t)]
       THEN /\ pc' = [pc EXCEPT ![t] = "open"]
            /\ UNCHANGED <<ip, scope>>
       ELSE /\ ip' = [ip EXCEPT ![t] = @ + 1]
            /\ scope' = [scope EXCEPT ![t] = @ + 1]
            /\ UNCHANGED pc
    /\ io' = NoIO
    /\ UNCHANGED <<fdAttr, flockHolder, openFds, useFile, procOf, op, exc, attempt, busy>>
    /\ UNCHANGED nonLockVars

\* self._fd = os.open(self._lockfile, ...)
OpenFd(t) ==
    /\ pc[t] = "open"
    /\ fdAttr' = [fdAttr EXCEPT ![Proc(t)] = <<t, tlockCount[Proc(t)]>>]
    /\ openFds' = openFds \cup {<<t, tlockCount[Proc(t)]>>}
    /\ pc' = [pc EXCEPT ![t] = "flock"]
    /\ io' = NoIO
    /\ UNCHANGED <<tlockOwner, tlockCount, flockHolder, useFile, procOf, op, ip, scope,
                   exc, attempt, busy>>
    /\ UNCHANGED nonLockVars

\* fcntl.flock(self._fd, fcntl.LOCK_EX), then the yield
Flock(t) ==
    /\ pc[t] = "flock"
    /\ CanFlock(fdAttr[Proc(t)])
    /\ flockHolder' = fdAttr[Proc(t)]
    /\ pc' = [pc EXCEPT ![t] = "run"]
    /\ ip' = [ip EXCEPT ![t] = @ + 1]
    /\ scope' = [scope EXCEPT ![t] = @ + 1]
    /\ io' = NoIO
    /\ UNCHANGED <<tlockOwner, tlockCount, fdAttr, openFds, useFile, procOf, op, exc,
                   attempt, busy>>
    /\ UNCHANGED nonLockVars

\* acquire() without try/finally: an exception leaves the file lock held
UnflockNoFinally(t) ==
    /\ pc[t] = "run" /\ ip[t] <= Len(Script(op[t]))
    /\ Script(op[t])[ip[t]] = "release"
    /\ useFile[Proc(t)]
    /\ scope' = [scope EXCEPT ![t] = @ - 1]
    /\ IF exc[t]
       THEN UNCHANGED <<flockHolder, openFds, fdAttr>>
       ELSE /\ flockHolder' = IF flockHolder = fdAttr[Proc(t)]
                              THEN NoFd ELSE flockHolder
            /\ openFds' = openFds \ {fdAttr[Proc(t)]}
            /\ fdAttr' = [fdAttr EXCEPT ![Proc(t)] = NoFd]
    /\ pc' = [pc EXCEPT ![t] = "trelease"]
    /\ io' = NoIO
    /\ UNCHANGED <<tlockOwner, tlockCount, useFile, procOf, op, ip, exc, attempt,
                   busy>>
    /\ UNCHANGED nonLockVars

\* control leaves the with block, by its end or by an exception;
\* finally: flock(self._fd, LOCK_UN); os.close(self._fd); self._fd = None
\* (flock(None, ...) raises TypeError and skips the rest)
Unflock(t) ==
    /\ pc[t] = "run" /\ ip[t] <= Len(Script(op[t]))
    /\ Script(op[t])[ip[t]] = "release"
    /\ useFile[Proc(t)]
    /\ scope' = [scope EXCEPT ![t] = @ - 1]
    /\ IF fdAttr[Proc(t)] = NoFd
       THEN /\ exc' = [exc EXCEPT ![t] = TRUE]
            /\ UNCHANGED <<flockHolder, openFds, fdAttr>>
       ELSE /\ flockHolder' = IF flockHolder = fdAttr[Proc(t)]
                              THEN NoFd ELSE flockHolder
            /\ openFds' = openFds \ {fdAttr[Proc(t)]}
            /\ fdAttr' = [fdAttr EXCEPT ![Proc(t)] = NoFd]
            /\ UNCHANGED exc
    /\ pc' = [pc EXCEPT ![t] = "trelease"]
    /\ io' = NoIO
    /\ UNCHANGED <<tlockOwner, tlockCount, useFile, procOf, op, ip, attempt, busy>>
    /\ UNCHANGED nonLockVars

\* the end of "with self._tlock:"
TLockRelease(t) ==
    /\ \/ pc[t] = "trelease"
       \/ /\ pc[t] = "run" /\ ip[t] <= Len(Script(op[t]))
          /\ Script(op[t])[ip[t]] = "release"
          /\ ~useFile[Proc(t)]
    /\ scope' = [scope EXCEPT ![t] = IF pc[t] = "trelease" THEN @ ELSE @ - 1]
    /\ tlockCount' = [tlockCount EXCEPT ![Proc(t)] = @ - 1]
    /\ tlockOwner' = [tlockOwner EXCEPT ![Proc(t)] =
                         IF tlockCount[Proc(t)] = 1 THEN NoThread ELSE @]
    /\ pc' = [pc EXCEPT ![t] = "run"]
    /\ ip' = [ip EXCEPT ![t] = @ + 1]
    /\ io' = NoIO
    /\ UNCHANGED <<fdAttr, flockHolder, openFds, useFile, procOf, op, exc, attempt, busy>>
    /\ UNCHANGED nonLockVars

\* ------------------------------------------------------------------------
\* The threads
\* ------------------------------------------------------------------------
\* the index of the "release" that ends the innermost block around step i
RECURSIVE NextRelease(_, _)
NextRelease(s, i) == IF s[i] = "release" THEN i ELSE NextRelease(s, i + 1)

Start(t) ==
    /\ pc[t] = "idle"
    /\ \E o \in OpKinds : op' = [op EXCEPT ![t] = o]
    /\ pc' = [pc EXCEPT ![t] = "run"]
    /\ ip' = [ip EXCEPT ![t] = 1]
    /\ attempt' = [attempt EXCEPT ![t] = 0]
    /\ exc' = [exc EXCEPT ![t] = FALSE]
    /\ io' = NoIO
    /\ UNCHANGED <<tlockOwner, tlockCount, fdAttr, flockHolder, openFds,
                   useFile, procOf, scope, busy>>
    /\ UNCHANGED nonLockVars

\* self.ser.write(...)
SerialWrite(t) ==
    /\ pc[t] = "run" /\ ip[t] <= Len(Script(op[t]))
    /\ IsWrite(Script(op[t])[ip[t]])
    /\ io' = [t |-> t, kind |-> Script(op[t])[ip[t]]]
    /\ busy' = [busy EXCEPT ![t] = TRUE]
    /\ ip' = [ip EXCEPT ![t] = @ + 1]
    /\ UNCHANGED <<tlockOwner, tlockCount, fdAttr, flockHolder, openFds,
                   useFile, procOf, pc, op, scope, exc, attempt>>
    /\ UNCHANGED nonLockVars

\* self.ser.readline() / read() / reset_input_buffer(), up to the end of the
\* read loop: the awaited bytes arrived (ok), or the deadline expired and the
\* exception leaves the enclosing with block
SerialRead(t) ==
    /\ pc[t] = "run" /\ ip[t] <= Len(Script(op[t]))
    /\ IsRead(Script(op[t])[ip[t]])
    /\ \E ok \in BOOLEAN :
          /\ ok \/ CanFail(Script(op[t])[ip[t]])
          /\ exc' = [exc EXCEPT ![t] = ~ok]
          /\ busy' = [busy EXCEPT ![t] =
                         IF ~ok \/ ip[t] = LastIO(Script(op[t])) THEN FALSE ELSE @]
          /\ ip' = [ip EXCEPT ![t] =
                         IF ok THEN @ + 1 ELSE NextRelease(Script(op[t]), @)]
    /\ io' = [t |-> t, kind |-> Script(op[t])[ip[t]]]
    /\ UNCHANGED <<tlockOwner, tlockCount, fdAttr, flockHolder, openFds,
                   useFile, procOf, pc, op, scope, attempt>>
    /\ UNCHANGED nonLockVars

\* the operation ends; command() starts its next attempt after a timeout
\* when attempt < retries ("continue")
Finish(t) ==
    /\ pc[t] = "run" /\ ip[t] > Len(Script(op[t]))
    /\ IF op[t].name = "command" /\ exc[t] /\ attempt[t] < op[t].retries
       THEN /\ attempt' = [attempt EXCEPT ![t] = @ + 1]
            /\ ip' = [ip EXCEPT ![t] = 1]
            /\ exc' = [exc EXCEPT ![t] = FALSE]
            /\ UNCHANGED <<pc, op>>
       ELSE /\ pc' = [pc EXCEPT ![t] = "idle"]
            /\ op' = [op EXCEPT ![t] = NoOp]
            /\ ip' = [ip EXCEPT ![t] = 1]
            /\ attempt' = [attempt EXCEPT ![t] = 0]
            /\ exc' = [exc EXCEPT ![t] = FALSE]
    /\ io' = NoIO
    /\ UNCHANGED <<tlockOwner, tlockCount, fdAttr, flockHolder, openFds,
                   useFile, procOf, scope, busy>>
    /\ UNCHANGED nonLockVars

LockInit ==
    /\ tlockOwner = [p \in Procs |-> NoThread]
    /\ tlockCount = [p \in Procs |-> 0]
    /\ fdAttr = [p \in Procs |-> NoFd]
    /\ flockHolder = NoFd
    /\ openFds = {}
    /\ useFile \in [Procs -> BOOLEAN]
    /\ procOf \in {f \in [Threads -> Procs] : f["T1"] = "A"}
    /\ pc = [t \in Threads |-> "idle"]
    /\ op = [t \in Threads |-> NoOp]
    /\ ip = [t \in Threads |-> 1]
    /\ scope = [t \in Threads |-> 0]
    /\ exc = [t \in Threads |-> FALSE]
    /\ attempt = [t \in Threads |-> 0]
    /\ busy = [t \in Threads |-> FALSE]
    /\ io = NoIO

\* no call of command() under way
AtIdle ==
    /\ aCmd = <<>> /\ aExpectOk = TRUE /\ aWake = TRUE
    /\ aRetries = 0 /\ aAttempt = 0
    /\ rx = <<>> /\ aLines = <<>> /\ aRaw = <<>> /\ aEcho = FALSE
    /\ aPc = "idle" /\ aWire = <<>> /\ aResult = NoResult
    /\ aTimedOut = 0 /\ aLocked = FALSE /\ aHolds = 0

\* no HTTP request under way
HttpIdle ==
    /\ hMethod = 0 /\ hTry = 0 /\ hPc = "idle" /\ hActions = 0
    /\ hStatus = 0 /\ hLength = 0 /\ hBody = <<>> /\ hStream = <<>>
    /\ hRaw = <<>> /\ hBodyStart = 0 /\ hExpired = FALSE
    /\ hResult = NoHttpResult
    /\ hLog = <<>> /\ hEvents = <<>> /\ hPrompt = <<>>
    /\ hSeen = FALSE /\ hGot = FALSE /\ hRecv = <<>>

\* no session under way
SessQuiet ==
    /\ sPhase = "out" /\ sStep = 1 /\ sTry = 0 /\ sPolls = 0
    /\ sKeep = FALSE /\ sVia = "with" /\ sRx = <<>> /\ sLog = <<>>
    /\ sOk = {} /\ sSwallowed = {} /\ sRaisedAt = 0 /\ sOutcome = "none"
    /\ sBodyExc = FALSE /\ sExitRaised = FALSE /\ sCount = 0
    /\ mGood = TRUE

SessIdle == SessQuiet /\ mHttp = FALSE /\ mBearer = FALSE

\* no concurrent callers of HTTP
ConcIdle ==
    /\ qMethod = [t \in Callers |-> 0] /\ qUrl = [t \in Callers |-> NoUrl]
    /\ qPc = [t \in Callers |-> "idle"]
    /\ qStatus = [t \in Callers |-> 0] /\ qLen = [t \in Callers |-> 0]
    /\ qResult = [t \in Callers |-> NoHttpResult]
    /\ dUrl = NoUrl /\ dUp = <<>> /\ dFetch = NoFetch /\ dData = <<>>
    /\ cRx = <<>>

\* no send() under way
SmsIdle ==
    /\ smsNumber = <<>> /\ smsText = <<>> /\ smsPc = "idle"
    /\ smsUcs2 = FALSE /\ smsNumberToSend = <<>> /\ smsTextBytes = <<>>
    /\ smsWire = <<>> /\ smsHold = 0 /\ smsPrompt = <<>> /\ smsGot = FALSE
    /\ smsFinal = <<>> /\ smsExc = "none" /\ smsResult = "none"

\* no CMGL response to parse
CmglIdle ==
    /\ pR = <<>> /\ pParsed = <<>> /\ pWire = <<>> /\ pReparsed = <<>>
    /\ pPc = "idle"

\* no signal quality read
SignalIdle ==
    /\ gIn = [rssi |-> 0, ber |-> 0] /\ gLine = <<>>
    /\ gRssi = 0 /\ gBer = 0 /\ gBars = 0 /\ gPc = "idle"

PureIdle == CmglIdle /\ SignalIdle

\* no command() under way
NoArgs == [cmd |-> "", timeout |-> 0, retries |-> 0, expect_ok |-> TRUE]

CmdIdle ==
    /\ cPc = "idle" /\ cArgs = NoArgs /\ cHeld = FALSE /\ cAttempt = 0
    /\ cDeadline = 0 /\ cMatch = FALSE /\ cOut = "none"

\* no blocking operation called
OpsIdle ==
    /\ oOp = "none" /\ oArgs = NoArgs /\ oPc = "idle" /\ oNow = 0
    /\ oDeadline = 0 /\ oWake = 0 /\ oPhase = 0 /\ oIter = <<>>
    /\ oSaw = FALSE /\ oResult = "none" /\ oLock = "free"
    /\ CmdIdle

\* no poll made
NoPoll == [out |-> "none", lines |-> <<>>]

\* wait_registered not called
RegIdle ==
    /\ wGprs = FALSE /\ wTimeout = 0 /\ wNow = 0 /\ wPc = "idle"
    /\ wCmds = {} /\ wLast = NoPoll /\ wFailed = FALSE /\ wResult = "none"

\* command() has not returned yet
NoResp == [kind |-> "none", send |-> 0, lines |-> <<>>]

\* no command sent, nothing on its way from the modem
LateIdle ==
    /\ lCall = 0 /\ lRetries = 0 /\ lAttempt = 0 /\ lPc = "idle"
    /\ lSent = 0 /\ lOwn = 0 /\ lModem = <<>> /\ lIn = <<>>
    /\ lLines = <<>> /\ lResp = NoResp

Init == LockInit /\ AtIdle /\ HttpIdle /\ SessIdle /\ ConcIdle /\ SmsIdle /\ PureIdle /\ OpsIdle /\ RegIdle /\ LateIdle

Next ==
    \E t \in Threads :
        \/ Start(t)
        \/ TLockAcquire(t)
        \/ OpenFd(t)
        \/ Flock(t)
        \/ SerialWrite(t)
        \/ SerialRead(t)
        \/ Unflock(t)
        \/ TLockRelease(t)
        \/ Finish(t)

Spec == Init /\ [][Next]_vars

\* ------------------------------------------------------------------------
\* Properties of Spec
\* ------------------------------------------------------------------------
\* the thread is at a point of an operation where it waits to enter acquire()
WaitsToAcquire(u) ==
    /\ pc[u] = "run" /\ ip[u] = 1 /\ op[u] # NoOp
    /\ Script(op[u])[1] = "acquire"

\* the thread holds nothing of the lock: not the RLock, not the file lock,
\* and no open file description of the lockfile
HoldsNothing(t) ==
    /\ tlockOwner[Proc(t)] # t
    /\ flockHolder = NoFd \/ flockHolder[1] # t
    /\ \A fd \in openFds : fd[1] # t

\* C1: mutual exclusion. Two threads of one process, or two threads of two
\* processes that both use the lockfile, are never inside an acquire() scope
\* at the same time.
C1_MutualExclusion ==
    \A t, u \in Threads :
        Conflict(t, u) => ~(scope[t] > 0 /\ scope[u] > 0)

\* a thread of one process is inside the scope while a thread of another
\* process waits in flock()
C1_Witness ==
    \E t, u \in Threads :
        /\ Proc(t) # Proc(u) /\ useFile[Proc(t)] /\ useFile[Proc(u)]
        /\ scope[t] > 0 /\ pc[u] = "flock"

\* C2: no interleaving on the wire. Of two threads of one channel running
\* command(), at most one has an attempt in progress (first byte written,
\* reading of the reply not yet ended).
C2_NoInterleaving ==
    \A t, u \in Threads :
        (t # u /\ Proc(t) = Proc(u)
              /\ op[t].name = "command" /\ op[u].name = "command")
            => ~(busy[t] /\ busy[u])

\* one thread's attempt is in progress while another command() of the same
\* channel waits for the lock
C2_Witness ==
    \E t, u \in Threads :
        /\ t # u /\ Proc(t) = Proc(u)
        /\ op[t].name = "command" /\ busy[t] /\ io = [t |-> t, kind |-> "w_cmd"]
        /\ op[u].name = "command" /\ WaitsToAcquire(u)

\* C3: every access to the serial port is made by a thread that is inside an
\* acquire() scope and holds its channel's lock.
C3_IOInsideScope ==
    io.t # NoThread => (scope[io.t] > 0 /\ Held(io.t))

\* a body upload has just been written
C3_Witness == io.kind = "w_body" /\ useFile[Proc(io.t)]

\* C4: while a handshake (HTTPREAD, HTTPDATA, CMGS) is between its first byte
\* written and its last byte read, its thread holds the lock and no competing
\* thread accesses the serial port or has a conversation of its own under way.
C4_HandshakeAtomic ==
    \A t \in Threads :
        (busy[t] /\ op[t].name \in Handshakes) =>
            /\ scope[t] > 0 /\ Held(t)
            /\ \A u \in Threads : Conflict(t, u) => (io.t # u /\ ~busy[u])

\* an HTTPDATA upload is under way while a competing thread waits for the lock
C4_Witness ==
    \E t, u \in Threads :
        /\ Conflict(t, u)
        /\ busy[t] /\ op[t].name = "httpdata" /\ io = [t |-> t, kind |-> "w_body"]
        /\ WaitsToAcquire(u)

\* C5: reentrancy with a lockfile. A thread that is inside an acquire() scope
\* and enters acquire() again is not blocked at the file lock.
C5_ReentrantWithLockfile ==
    \A t \in Threads :
        (scope[t] > 0 /\ pc[t] = "flock") => CanFlock(fdAttr[Proc(t)])

\* C6: when control has left every acquire() scope of a thread, by return or
\* by an exception, the thread holds neither the thread lock nor the file
\* lock.
C6_ReleasedOnExit ==
    \A t \in Threads :
        (pc[t] \in {"idle", "run"} /\ scope[t] = 0) => HoldsNothing(t)

\* a thread left its scope by an exception and a competing thread of another
\* process is inside the scope now
C6_Witness ==
    \E t, u \in Threads :
        /\ Proc(t) # Proc(u) /\ useFile[Proc(t)] /\ useFile[Proc(u)]
        /\ exc[t] /\ pc[t] = "run" /\ scope[t] = 0
        /\ ip[t] > Len(Script(op[t]))
        /\ scope[u] > 0

\* ------------------------------------------------------------------------
\* SpecAT: one call of command() at a time, the threads of Spec at rest
\* ------------------------------------------------------------------------
AtInit ==
    /\ LockInit
    /\ useFile = [p \in Procs |-> TRUE]
    /\ procOf = [t \in Threads |-> "A"]
    /\ AtIdle
    /\ HttpIdle
    /\ SessIdle
    /\ ConcIdle
    /\ SmsIdle
    /\ PureIdle
    /\ OpsIdle
    /\ RegIdle
    /\ LateIdle

AtNext == ACall \/ ASend \/ AReadLine \/ AExpire \/ ACheck

SpecAT == AtInit /\ [][AtNext]_vars

\* the last line of a returned response
LastLine(r) == r.lines[Len(r.lines)]

\* "+CME ERROR: n" or "+CMS ERROR: n", n a number
IsCodeForm(line, prefix) ==
    /\ StartsWith(line, prefix)
    /\ LET rest == LStrip(SubSeq(line, Len(prefix) + 1, Len(line)))
       IN  rest # <<>> /\ \A i \in 1..Len(rest) : rest[i] \in Digits

IsTerminatorForm(line) ==
    \/ line = T_OK
    \/ line = T_ERROR
    \/ IsCodeForm(line, T_CME)
    \/ IsCodeForm(line, T_CMS)

\* C9: every Response returned by command() ends with a line that is exactly
\* OK, exactly ERROR, or of the form +CME ERROR: n or +CMS ERROR: n; a deadline
\* that expires without a terminator gives a timeout and no Response.
C9_ResponseEndsWithTerminator ==
    aResult.kind = "response" =>
        (aResult.lines # <<>> /\ IsTerminatorForm(LastLine(aResult)))

\* C10: with expect_ok, command() returns only a reply whose terminator is OK,
\* and a reply that ends with an error-form terminator raises an AT error that
\* carries the command, the response text and the CME or CMS code.
C10_ExpectOkReturnsOnlyOK ==
    (aPc = "done" /\ aExpectOk) =>
        /\ aResult.kind = "response" => LastLine(aResult) = T_OK
        /\ (aLines # <<>> /\ aResult.kind # "timeout"
              /\ IsTerminatorForm(aLines[Len(aLines)])
              /\ aLines[Len(aLines)] # T_OK)
             => /\ aResult.kind = "aterror"
                /\ aResult.command = aCmd
                /\ aResult.response = Join(aLines)
                /\ aResult.cme_code = RegexCode(aLines[Len(aLines)], T_CME)
                /\ aResult.cms_code = RegexCode(aLines[Len(aLines)], T_CMS)

\* the number of times the command (cmd + CRLF) was written
RECURSIVE CmdWrites(_, _)
CmdWrites(wire, cmd) ==
    IF wire = <<>> THEN 0
    ELSE (IF Head(wire).data = Encode(cmd \o T_CRLF) THEN 1 ELSE 0)
         + CmdWrites(Tail(wire), cmd)

\* C11: command(cmd, retries=r) writes cmd again only after an attempt timed
\* out (so never after a reply, whether it ends in OK, ERROR, +CME ERROR or
\* +CMS ERROR), writes it at most r+1 times, and raises the AT timeout exactly
\* when all r+1 attempts timed out; the call ends with a response, a raised
\* AT error or a raised AT timeout.
C11_ResendOnlyAfterTimeout ==
    /\ CmdWrites(aWire, aCmd) <= aRetries + 1
    /\ CmdWrites(aWire, aCmd) <= aTimedOut + 1
    /\ (aResult.kind = "timeout") <=> (aPc = "done" /\ aTimedOut = aRetries + 1)
    /\ aPc = "done" => aResult.kind \in {"response", "aterror", "timeout"}

\* a first attempt timed out, cmd was written again, the second reply ended in
\* an error and the AT error was raised without a third write
C11_Witness ==
    /\ aPc = "done"
    /\ aRetries >= 1
    /\ aTimedOut = 1
    /\ CmdWrites(aWire, aCmd) = 2
    /\ aResult.kind = "aterror"

\* the delay the wake-up needs, in ms ("wait >=100ms")
MinWakeDelayMs == 100

\* C12: in every attempt of command() with wake enabled, retries included, the
\* write of the command is preceded by the write of a CR made in the same lock
\* hold, and at least 100 ms are slept between the two.
C12_WakeBeforeCommand ==
    aWake =>
        \A i \in 1..Len(aWire) :
            aWire[i].data = Encode(aCmd \o T_CRLF) =>
                /\ i > 1
                /\ aWire[i - 1].data = SleepWakeChar
                /\ aWire[i - 1].hold = aWire[i].hold
                /\ aWire[i].slept >= MinWakeDelayMs

\* a retry attempt of a call with wake enabled has written its command
C12_Witness ==
    /\ aWake
    /\ aAttempt = 1
    /\ aPc = "read"
    /\ aLocked
    /\ Len(aWire) = 4
    /\ aWire[4].hold = 2

\* ------------------------------------------------------------------------
\* SpecHTTP: one HTTP request at a time, the threads of Spec at rest
\* ------------------------------------------------------------------------
HttpInit ==
    /\ LockInit
    /\ useFile = [p \in Procs |-> TRUE]
    /\ procOf = [t \in Threads |-> "A"]
    /\ AtIdle
    /\ HttpIdle
    /\ SessIdle
    /\ ConcIdle
    /\ SmsIdle
    /\ PureIdle
    /\ OpsIdle
    /\ RegIdle
    /\ LateIdle

HttpNext ==
    \/ HCall \/ HParams \/ HData \/ HPromptRead \/ HPromptExpire \/ HUpload
    \/ HAction \/ HUrcTimeout \/ HUrcUnparsed \/ HUrc \/ HReadStart
    \/ HReadMarker \/ HReadBody \/ HBodyDone \/ HExpire

SpecHTTP == HttpInit /\ [][HttpNext]_vars

\* C7: binary-safe body read. When the modem answers AT+HTTPREAD with the
\* header line, the L bytes of B and CRLF OK, and the deadline does not pass,
\* the body read returns exactly B.
C7_BodyReadReturnsBody ==
    (hPc = "done" /\ hLength > 0 /\ hMethod # 2 /\ hStatus < 600
          /\ hActions > 0 /\ hResult.kind \notin {"aterror", "attimeout"}
          /\ ~(hResult.kind = "httperror" /\ hRaw = <<>>)
          /\ ~hExpired)
        => (hResult.kind = "response" /\ hResult.data = hBody)

\* C8: a response returned by get() or post() has a body of the length the
\* +HTTPACTION URC reported, a response returned by head() has an empty
\* body, and a shorter body is never returned.
C8_BodyLengthMatchesUrc ==
    (hPc = "done" /\ hResult.kind = "response") =>
        /\ hMethod = 2 => hResult.data = <<>>
        /\ hMethod # 2 => Len(hResult.data) = hLength

\* a POST returned a body that holds CR and LF
C8_Witness ==
    /\ hPc = "done" /\ hResult.kind = "response" /\ hMethod = 1
    /\ hResult.data = T_HTTPREAD_TAIL

\* an attempt that failed with stack status 604
Is604(a) == a.out.kind = "httperror" /\ a.out.status_code = 604

\* the attempts of the request that have ended and the one under way
AttemptsStarted == Len(hLog) + (IF hPc \in {"idle", "done"} THEN 0 ELSE 1)

\* C13: get() and post() start another attempt only after an attempt that
\* failed with stack status 604, and do start one after a 604 while fewer
\* than max_retries attempts have been made; every other outcome (another
\* stack status, a missing or unparsable URC, a missing DOWNLOAD prompt, a
\* truncated body, an AT error or timeout) ends the call with that outcome,
\* with at most one AT+HTTPACTION per attempt made.
C13_RetryOnlyOn604 ==
    Decorated(hMethod) =>
        /\ \A i \in 1..Len(hLog) :
              (i < AttemptsStarted) => Is604(hLog[i])
        /\ (hPc = "done" /\ Len(hLog) < HttpMaxRetries)
              => ~Is604(hLog[Len(hLog)])
        /\ hPc = "done" => hResult = hLog[Len(hLog)].out
        /\ hActions <= AttemptsStarted

\* a second attempt, made after a 604, failed with 601 and ended the call
C13_Witness ==
    /\ hPc = "done" /\ Decorated(hMethod)
    /\ Len(hLog) = 2
    /\ Is604(hLog[1])
    /\ hResult = HttpError("stack", 601)
    /\ hActions = 2

\* the sleeps of the retry wrapper
Sleeps(events) == SelectSeq(events, LAMBDA ev : ev.kind = "sleep")

\* C14: a GET or POST that keeps reporting 604 is retried max_retries = 3
\* times, each retry after a delay of 5 s, and the 604 error reaches the
\* caller only after the third retry has reported 604 too.
C14_ThreeRetriesOn604 ==
    (hPc = "done" /\ Decorated(hMethod) /\ Is604(hLog[Len(hLog)])) =>
        /\ Len(hLog) = 1 + HttpMaxRetries
        /\ Len(Sleeps(hEvents)) = HttpMaxRetries
        /\ \A i \in 1..Len(Sleeps(hEvents)) :
              Sleeps(hEvents)[i].ms = RetryDelayMs

\* C15: when the first k-1 attempts of a get() report 604 and the k-th reports
\* a status below 600 and a length L, and the modem then sends the reply to
\* AT+HTTPREAD in full and in time, get() returns that status and that body
\* after exactly k AT+HTTPACTION commands (k in 1..3).
C15_SuccessAfter604s ==
    (/\ hPc = "done" /\ hMethod = 0
     /\ hLog[Len(hLog)].urc # None /\ hLog[Len(hLog)].urc < 600
     /\ ~hExpired)
        => /\ hResult = HttpResponse(hLog[Len(hLog)].urc, hBody)
           /\ hActions = Len(hLog)
           /\ Len(hLog) \in 1..HttpMaxRetries

\* C16: get(), post() and head() return a response with the status of the
\* +HTTPACTION URC, without retrying, for every status below 600 (the reply
\* to AT+HTTPREAD arriving in full and in time), and for every status of 600
\* or above raise an HTTP error that carries that status.
C16_StatusBelow600Returned ==
    (hPc = "done" /\ hLog[Len(hLog)].urc # None) =>
        /\ (hLog[Len(hLog)].urc < 600 /\ ~hExpired)
              => /\ hResult.kind = "response"
                 /\ hResult.status_code = hLog[Len(hLog)].urc
        /\ hLog[Len(hLog)].urc >= 600
              => hResult = HttpError("stack", hLog[Len(hLog)].urc)
        /\ \A i \in 1..Len(hLog) :
              (hLog[i].urc # None /\ hLog[i].urc < 600) => i = Len(hLog)

\* C17: post() writes the request body only after DOWNLOAD has been read in
\* reply to AT+HTTPDATA of the same attempt; an attempt in which the prompt was
\* not read by the deadline raises an HTTP error, writes no body and sends no
\* AT+HTTPACTION=1.
C17_BodyOnlyAfterDownload ==
    /\ \A i \in 1..Len(hEvents) :
          hEvents[i].kind = "body" =>
              /\ hEvents[i].prompted
              /\ i > 1
              /\ hEvents[i - 1] = Event("httpdata", hEvents[i].try, 0, FALSE)
    /\ \A i \in 1..Len(hEvents) :
          (hMethod = 1 /\ hEvents[i].kind = "action") =>
              /\ i > 1
              /\ hEvents[i - 1].kind = "body"
              /\ hEvents[i - 1].try = hEvents[i].try
    /\ (hPc = "done" /\ hMethod = 1 /\ ~hGot /\ Len(hEvents) > 0
          /\ hEvents[Len(hEvents)].kind = "httpdata")
          => /\ hResult.kind = "httperror"
             /\ hResult.status_code = None

\* a POST read the prompt and wrote its body, and an earlier attempt of it
\* had ended in 604
C17_Witness ==
    /\ hMethod = 1 /\ hTry = 1 /\ hPc = "action"
    /\ hGot
    /\ hEvents[Len(hEvents)].kind = "body"

\* ------------------------------------------------------------------------
\* SpecSession: sessions one after the other on one device, the threads of
\* Spec at rest
\* ------------------------------------------------------------------------
SessInit ==
    /\ LockInit
    /\ useFile = [p \in Procs |-> TRUE]
    /\ procOf = [t \in Threads |-> "A"]
    /\ AtIdle
    /\ HttpIdle
    /\ SessQuiet
    /\ mHttp \in BOOLEAN
    /\ mBearer \in BOOLEAN
    /\ ConcIdle
    /\ SmsIdle
    /\ PureIdle
    /\ OpsIdle
    /\ RegIdle
    /\ LateIdle

SessNext == SBegin \/ SCommand("enter") \/ SBody \/ SCommand("exit")

SpecSession == SessInit /\ [][SessNext]_vars

\* the commands __enter__ has sent, the commands __exit__ has sent
EnterLog == SelectSeq(sLog, LAMBDA x : x.phase = "enter")
ExitLog == SelectSeq(sLog, LAMBDA x : x.phase = "exit")

\* the steps of __enter__ that are not best-effort
MandatorySteps == {i \in 1..Len(EnterScript) : EnterScript[i].kind # "try"}

\* C18: __enter__ sends its commands in the fixed order sync (AT, ATE0,
\* AT+CMEE=2), HTTPTERM, SAPBR=0, CPIN?, CREG?, CGATT, CGREG?, bearer open,
\* HTTP init; a command is sent only when every mandatory step before it
\* has succeeded; the step that raises is a mandatory one that did not
\* succeed and is the last one sent; a failed cleanup command never raises.
C18_EntryOrder ==
    LET ent == EnterLog
    IN  /\ ent # <<>> => ent[1].step = 1
        /\ \A i \in 1..(Len(ent) - 1) :
              \/ ent[i + 1].step \in {ent[i].step, ent[i].step + 1}
              \/ /\ EnterScript[ent[i].step].kind = "attach_query"
                 /\ ent[i + 1].step = ent[i].step - 1
        /\ \A i \in 1..Len(ent) :
              \A m \in MandatorySteps :
                  EnterScript[m].stage < EnterScript[ent[i].step].stage
                      => m \in sOk
        /\ sOutcome = "raised" =>
              /\ sRaisedAt \in MandatorySteps
              /\ sRaisedAt \notin sOk
              /\ ent[Len(ent)].step = sRaisedAt
        /\ sOutcome = "entered" =>
              /\ MandatorySteps \subseteq sOk
              /\ ent[Len(ent)].step = Len(EnterScript)
        /\ sSwallowed \cap MandatorySteps = {}

\* both cleanup commands failed, the entry went on and raised at the
\* SIM-ready check
C18_Witness ==
    /\ sOutcome = "raised"
    /\ sSwallowed = {4, 5}
    /\ sRaisedAt = 6
    /\ sOk = {1, 2, 3}

\* the commands __exit__ is to send
ExitCommands(keep) ==
    <<"AT+HTTPTERM">> \o (IF keep THEN <<>> ELSE <<"AT+SAPBR=0,1">>)

\* C19: __exit__ runs after the body whether it returned or raised; it sends
\* AT+HTTPTERM and then, exactly when keep_bearer_open is false, AT+SAPBR=0,1;
\* it never raises.
C19_ExitCleanup ==
    /\ ~sExitRaised
    /\ \A i \in 1..Len(ExitLog) :
          /\ i <= Len(ExitCommands(sKeep))
          /\ ExitLog[i].cmd = ExitCommands(sKeep)[i]
    /\ (sPhase = "out" /\ sOutcome = "entered")
          => Len(ExitLog) = Len(ExitCommands(sKeep))
    /\ (sPhase = "body" \/ (sPhase = "enter" /\ sOutcome = "none"))
          => ExitLog = <<>>

\* the body raised, the modem answered neither command of the exit in time,
\* and the exit ended without raising
C19_Witness ==
    /\ sPhase = "out" /\ sOutcome = "entered" /\ sBodyExc
    /\ ~sKeep /\ ~mGood
    /\ Len(ExitLog) = 2
    /\ mHttp /\ mBearer

\* C20: a session entered after an earlier one has exited, against a
\* responsive and registered modem, succeeds.
C20_ReentrySucceeds ==
    (sCount >= 2 /\ mGood /\ sOutcome # "none") => sOutcome = "entered"

\* ------------------------------------------------------------------------
\* SpecConc: two threads of one channel, each making one HTTP request
\* ------------------------------------------------------------------------
ConcInit ==
    /\ LockInit
    /\ useFile = [p \in Procs |-> TRUE]
    /\ procOf = [t \in Threads |-> "A"]
    /\ AtIdle
    /\ HttpIdle
    /\ SessIdle
    /\ ConcIdle
    /\ SmsIdle
    /\ PureIdle
    /\ OpsIdle
    /\ RegIdle
    /\ LateIdle

ConcNext ==
    \/ \E t \in Callers :
          \/ QCall(t)
          \/ QUrl(t)
          \/ QData(t)
          \/ QAction(t)
          \/ QUrc(t)
          \/ QUrcTimeout(t)
          \/ QRead(t)
    \/ ModemFetched

SpecConc == ConcInit /\ [][ConcNext]_vars

\* C21: one HTTP conversation at a time. Two requests made concurrently on
\* one channel are never in flight together, and a caller that gets a
\* response gets the status and body of its own request.
C21_OneConversationAtATime ==
    /\ \A t, u \in Callers : t # u => ~(InFlight(t) /\ InFlight(u))
    /\ \A t \in Callers :
          qResult[t].kind = "response" => qResult[t].data = OwnReply(t)

\* ------------------------------------------------------------------------
\* SpecSMS: one call of SMS.send
\* ------------------------------------------------------------------------
SmsInit ==
    /\ LockInit
    /\ useFile = [p \in Procs |-> TRUE]
    /\ procOf = [t \in Threads |-> "A"]
    /\ AtIdle
    /\ HttpIdle
    /\ SessIdle
    /\ ConcIdle
    /\ SmsIdle
    /\ PureIdle
    /\ OpsIdle
    /\ RegIdle
    /\ LateIdle

SmsNext ==
    \/ SmsCall \/ SmsTextMode \/ SmsCharset \/ SmsCmgs \/ SmsPromptRead
    \/ SmsPromptExpire \/ SmsBody

SpecSMS == SmsInit /\ [][SmsNext]_vars

\* the writes of send() that are not wake characters
SmsSent == SelectSeq(smsWire, LAMBDA w : w.kind # "wake")
CscsCommands == {"AT+CSCS=\"UCS2\"", "AT+CSCS=\"GSM\""}
BodyWrites == {i \in 1..Len(smsWire) : smsWire[i].kind = "body"}

\* the value of an uppercase hex digit, -1 for any other byte
HexVal(b) ==
    IF b \in 48..57 THEN b - 48 ELSE IF b \in 65..70 THEN b - 55 ELSE -1
\* the 16-bit units written as groups of four uppercase hex digits
IsUpperHex(bytes) ==
    /\ Len(bytes) % 4 = 0
    /\ \A i \in 1..Len(bytes) : HexVal(bytes[i]) >= 0
UnitsOfHex(bytes) ==
    [i \in 1..(Len(bytes) \div 4) |->
        HexVal(bytes[4 * i - 3]) * 4096 + HexVal(bytes[4 * i - 2]) * 256
            + HexVal(bytes[4 * i - 1]) * 16 + HexVal(bytes[4 * i])]
\* the code points a sequence of UTF-16 units stands for
RECURSIVE CodePointsOf(_)
CodePointsOf(us) ==
    IF us = <<>> THEN <<>>
    ELSE IF Len(us) >= 2 /\ us[1] \in 55296..56319 /\ us[2] \in 56320..57343
    THEN <<65536 + (us[1] - 55296) * 1024 + (us[2] - 56320)>>
             \o CodePointsOf(Tail(Tail(us)))
    ELSE <<Head(us)>> \o CodePointsOf(Tail(us))
\* bytes is the uppercase hex of the UTF-16 big-endian encoding of text
IsUcs2HexOf(bytes, text) ==
    IsUpperHex(bytes) /\ CodePointsOf(UnitsOfHex(bytes)) = text

\* C22: send(n, T) issues AT+CSCS="UCS2" if and only if a code point of T or
\* of n is greater than 127, and AT+CSCS="GSM" otherwise; with UCS2 the body
\* written after the prompt is the uppercase hex of T in UTF-16 big-endian
\* and the number of AT+CMGS is encoded the same way, with GSM the body is T
\* and the number is n.
C22_CharsetAndEncoding ==
    LET above127 == \/ \E i \in 1..Len(smsText) : smsText[i] > 127
                    \/ \E i \in 1..Len(smsNumber) : smsNumber[i] > 127
    IN  \A i \in 1..Len(smsWire) :
           LET w == smsWire[i]
           IN  /\ (w.kind = "cmd" /\ w.arg \in CscsCommands) =>
                      (w.arg = "AT+CSCS=\"UCS2\"" <=> above127)
               /\ w.kind = "cmgs" =>
                      IF above127 THEN IsUcs2HexOf(w.arg, smsNumber)
                      ELSE w.arg = smsNumber
               /\ w.kind = "body" =>
                      LET body == SubSeq(w.arg, 1, Len(w.arg) - 1)
                      IN  IF above127 THEN IsUcs2HexOf(body, smsText)
                          ELSE body = smsText

\* a text with a character outside the BMP has been written as UCS2 hex
C22_Witness ==
    /\ smsPc = "done" /\ BodyWrites # {}
    /\ \E i \in 1..Len(smsText) : smsText[i] = 128512
    /\ \E i \in 1..Len(smsWire) :
          smsWire[i].kind = "cmd" /\ smsWire[i].arg = "AT+CSCS=\"UCS2\""

\* C23: handshake order. send() issues AT+CMGF=1, then AT+CSCS, then in one
\* lock hold the wake CR, AT+CMGS and the body followed by one 0x1A; the body
\* is written only after a '>' was read, and when no '>' is read before the
\* deadline neither a body byte nor a 0x1A is written.
C23_HandshakeOrder ==
    /\ Len(SmsSent) <= 4
    /\ \A i \in 1..Len(SmsSent) :
          CASE i = 1 -> SmsSent[i].kind = "cmd" /\ SmsSent[i].arg = "AT+CMGF=1"
            [] i = 2 -> SmsSent[i].kind = "cmd" /\ SmsSent[i].arg \in CscsCommands
            [] i = 3 -> SmsSent[i].kind = "cmgs"
            [] i = 4 -> SmsSent[i].kind = "body"
    /\ \A i \in 1..Len(smsWire) :
          /\ smsWire[i].kind = "cmgs" =>
                /\ i > 1 /\ smsWire[i - 1].kind = "wake"
                /\ smsWire[i - 1].arg = SleepWakeChar
                /\ smsWire[i - 1].hold = smsWire[i].hold
          /\ smsWire[i].kind = "body" =>
                /\ smsGot
                /\ i > 1 /\ smsWire[i - 1].kind = "cmgs"
                /\ smsWire[i - 1].hold = smsWire[i].hold
                /\ smsWire[i].arg = smsTextBytes \o <<CtrlZ>>
    /\ smsExc = "SMSError" => (~smsGot /\ BodyWrites = {})
    /\ (smsPc \in {"prompt", "done"} /\ ~smsGot) => BodyWrites = {}

\* the prompt came in a chunk of its own after the CRLF, and the body was
\* written
C23_Witness ==
    /\ smsPc = "done" /\ smsGot /\ BodyWrites # {}
    /\ smsPrompt = <<" ">>

\* C24: send() returns True if and only if the whole handshake completed and
\* the modem's final result for AT+CMGS was OK, and False for every failure.
C24_TrueIffFinalOk ==
    smsPc = "done" =>
        /\ smsResult \in {"True", "False"}
        /\ smsResult = "True" <=> (BodyWrites # {} /\ smsFinal = T_OK)

\* ------------------------------------------------------------------------
\* SpecPure: the parsers applied to the replies they are written for
\* ------------------------------------------------------------------------
PureInit ==
    /\ LockInit
    /\ useFile = [p \in Procs |-> TRUE]
    /\ procOf = [t \in Threads |-> "A"]
    /\ AtIdle
    /\ HttpIdle
    /\ SessIdle
    /\ ConcIdle
    /\ SmsIdle
    /\ \/ /\ pPc = "input" /\ pR \in CmglResponses
          /\ pParsed = <<>> /\ pWire = <<>> /\ pReparsed = <<>>
          /\ SignalIdle
       \/ /\ pPc = "reply" /\ pR \in ReadAllReplies
          /\ pParsed = <<>> /\ pWire = <<>> /\ pReparsed = <<>>
          /\ SignalIdle
       \/ /\ CmglIdle
          /\ gPc = "input"
          /\ \E rssi \in RssiSet, ber \in BerSet :
                /\ gIn = [rssi |-> rssi, ber |-> ber]
                /\ gLine = CsqLine(rssi, ber)
          /\ gRssi = 0 /\ gBer = 0 /\ gBars = 0
    /\ OpsIdle
    /\ RegIdle
    /\ LateIdle

PureNext ==
    PParse \/ PSerialize \/ PReparse \/ PReadAll \/ GSignal \/ GBars

SpecPure == PureInit /\ [][PureNext]_vars

\* C25: CMGL parsing is idempotent. Parsing the serialization of a parsed
\* response gives the parsed response again.
C25_ParseIdempotent ==
    pPc = "reparsed" => DictEq(pReparsed, pParsed)

\* C29: signal bars. bars is 0 when RSSI is 99 or below 2, 1 when below 10,
\* 2 when below 15, 3 when below 20, 4 when below 25, and 5 otherwise, for
\* every RSSI in 0..31 and 99.
C29_BarsMapping ==
    gPc = "done" =>
        LET r == gIn.rssi
        IN  /\ gRssi = r
            /\ gBars = (CASE r = 99 \/ r < 2 -> 0
                          [] r # 99 /\ r >= 2 /\ r < 10 -> 1
                          [] r # 99 /\ r >= 10 /\ r < 15 -> 2
                          [] r # 99 /\ r >= 15 /\ r < 20 -> 3
                          [] r # 99 /\ r >= 20 /\ r < 25 -> 4
                          [] OTHER -> 5)
            /\ \A p \in {<<0, 0>>, <<1, 0>>, <<2, 1>>, <<9, 1>>, <<10, 2>>,
                         <<14, 2>>, <<15, 3>>, <<19, 3>>, <<20, 4>>, <<24, 4>>,
                         <<25, 5>>, <<31, 5>>, <<99, 0>>} :
                  r = p[1] => gBars = p[2]

\* bars() has been applied at a threshold
C29_Witness == gPc = "done" /\ gIn.rssi = 10 /\ gBars = 2

\* ------------------------------------------------------------------------
\* C27: an expired deadline and the error it raises

\* the outcome of an attempt whose deadline expired before the awaited
\* terminator (a command) or the awaited +HTTPACTION URC was read
DeadlineExpired(out) ==
    \/ out.kind = "attimeout"
    \/ /\ out.kind = "httperror"
       /\ out.msg = "Timeout waiting for +HTTPACTION"

\* C27: whenever a deadline expires without the awaited terminator or URC, the
\* operation raises the AT-timeout error: every attempt of a request that
\* ended on such a deadline ended with the AT-timeout error; it ended neither
\* with an AT-Error, nor with another error, nor with a response
C27_DeadlineRaisesATTimeout ==
    \A i \in 1..Len(hLog) :
        DeadlineExpired(hLog[i].out) => hLog[i].out.kind = "attimeout"

\* ------------------------------------------------------------------------
\* C26, C28, C30: the blocking operations against the clock (SpecOps)

OpsInit ==
    /\ LockInit
    /\ useFile = [p \in Procs |-> TRUE]
    /\ procOf = [t \in Threads |-> "A"]
    /\ AtIdle /\ HttpIdle /\ SessIdle /\ ConcIdle /\ SmsIdle /\ PureIdle
    /\ OpsIdle
    /\ RegIdle
    /\ LateIdle

OpsNext ==
    \/ OCall \/ CAcquire \/ CRead \/ CExpire \/ OCmdDone
    \/ OLoopHead \/ OPoll1Done \/ OPoll2Done \/ OSleepOver
    \/ OLockAcquire \/ OWaitRead \/ OWaitExpire \/ OFinalDone
    \/ Tick \/ OtherAcquire \/ OtherRelease

SpecOps == OpsInit /\ [][OpsNext]_vars

\* the steps the program takes by itself once they are possible: the ends of
\* its loops at their deadlines and what follows a command
ProgramStep ==
    \/ CExpire \/ OCmdDone \/ OLoopHead \/ OPoll1Done \/ OPoll2Done
    \/ OSleepOver \/ OWaitExpire \/ OFinalDone

\* the program is granted the modem lock
LockGranted == CAcquire \/ OLockAcquire

\* time advances, a holder of the lock releases it, the lock is eventually
\* granted, and the program takes its next step; nothing is assumed of what
\* the modem sends
FairOps ==
    /\ WF_vars(Tick)
    /\ WF_vars(OtherRelease)
    /\ SF_vars(LockGranted)
    /\ WF_vars(ProgramStep)

SpecOpsFair == SpecOps /\ FairOps

\* C26: best-effort operations never propagate an error: HTTP term(), GPRS
\* close(), the cleanup command of session entry and power_down() return
\* normally whether the modem replied OK, replied ERROR or a CME error, or
\* sent nothing until the timeout
C26_BestEffortNeverRaises ==
    (oPc = "done" /\ oOp \in BestEffort) => oResult = "returned"

\* close() has returned although its command, AT+SAPBR=0, timed out
C26_Witness ==
    /\ oPc = "done" /\ oOp = "close"
    /\ cOut = "attimeout" /\ oNow >= 20
    /\ oResult = "returned"

\* C28: every blocking operation that was called eventually returns or
\* raises, whatever the modem sends or does not send, given that time
\* advances, that reads return and that the lock is eventually granted
C28_EventuallyReturns == (oPc # "idle") ~> (oPc = "done")

\* wait_registered() has raised at its deadline, having read only lines that
\* are not terminal
C28_Witness ==
    /\ oPc = "done" /\ oOp = "wait_registered"
    /\ oResult = "NetworkError" /\ oSaw
    /\ Len(oIter) >= 1
    /\ \A i \in 1..Len(oIter) : oIter[i].out = "attimeout"

\* the poll of an entry of oIter got +CGATT: 1 in a reply to AT+CGATT?
Attached1(it) == it.query /\ it.out = "resp" /\ it.match

RegInit ==
    /\ LockInit
    /\ useFile = [p \in Procs |-> TRUE]
    /\ procOf = [t \in Threads |-> "A"]
    /\ AtIdle /\ HttpIdle /\ SessIdle /\ ConcIdle /\ SmsIdle /\ PureIdle
    /\ OpsIdle /\ RegIdle
    /\ LateIdle

RegNext == WCall \/ WPoll \/ WRaise

SpecReg == RegInit /\ [][RegNext]_vars

\* a +CREG: or +CGREG: line whose last field, the fields being separated by
\* ':' and ',', is the integer 1 or 5
RegistrationLine(line) ==
    /\ StartsWith(line, T_CREG) \/ StartsWith(line, T_CGREG)
    /\ LET parts == SplitParts(line, <<>>)
       IN  ParseInt(parts[Len(parts)]) \in {1, 5}

ReceivedLines(raw) ==
    LET fields == SplitOn(raw, T_CRLF)
    IN  SelectSeq([i \in 1..Len(fields) |-> Strip(fields[i])],
                  LAMBDA l : l # <<>>)

\* those lines without the first one when that one is the echo
WithoutLeadingEcho(lines, cmdSent) ==
    IF lines # <<>> /\ IsEcho(lines[1], cmdSent) THEN Tail(lines) ELSE lines

\* C32: per send, only the first non-empty line received after the command
\* can be dropped as echo (when it equals the command, or the command with AT
\* stripped); every later line is kept in Response.lines even if it equals
\* the command text
C32_OnlyFirstLineDropped ==
    aPc \in {"read", "check", "done"} =>
        aLines = WithoutLeadingEcho(ReceivedLines(aRaw), aCmd)

\* ------------------------------------------------------------------------
\* C33: the reply to AT+HTTPREAD read in chunks (SpecHTTP)

\* the attempt ended with the body read's 'malformed' or 'truncated' error
BodyReadRejected(out) ==
    /\ out.kind = "httperror"
    /\ out.msg \in {"Malformed +HTTPREAD response", "truncated"}

\* C33: a well-formed reply to AT+HTTPREAD is read successfully however the
\* serial reads split it into chunks: the reader raises 'malformed' or
\* 'truncated' only when the deadline has come with the header line or the
\* body incomplete (the replies of this specification are all well-formed)
C33_RejectedOnlyAtDeadline ==
    \A i \in 1..Len(hLog) : BodyReadRejected(hLog[i].out) => hExpired

\* ------------------------------------------------------------------------
\* C34: the DOWNLOAD prompt read in chunks (SpecHTTP)

\* C34: post() recognises the DOWNLOAD prompt whenever the eight bytes
\* DOWNLOAD appear contiguously in the byte stream received since
\* AT+HTTPDATA, however the serial reads split that stream into chunks
C34_PromptRecognisedInStream ==
    Contains(hRecv, T_DOWNLOAD) => hGot

\* ------------------------------------------------------------------------
\* C35: the order of the commands of one request (SpecHTTP)

\* C35: within one attempt of a request, AT+HTTPACTION is written only after
\* the AT+HTTPPARA commands of that attempt returned OK, and AT+HTTPREAD only
\* right after the AT+HTTPACTION of that attempt, by a GET or a POST whose
\* URC reported a status below 600 and a length above 0; a HEAD, a length of
\* 0 and a status of 600 or above write no AT+HTTPREAD
C35_ActionAfterUrlReadAfterUrc ==
    /\ \A i \in 1..Len(hEvents) :
          hEvents[i].kind = "action" =>
              \E j \in 1..(i - 1) :
                  /\ hEvents[j] = Event("params", hEvents[i].try, 0, FALSE)
                  /\ \A k \in (j + 1)..(i - 1) :
                        hEvents[k].kind \in {"httpdata", "body"}
    /\ \A i \in 1..Len(hEvents) :
          hEvents[i].kind = "httpread" =>
              /\ i > 1
              /\ hEvents[i - 1].kind = "action"
              /\ hEvents[i - 1].try = hEvents[i].try
              /\ hEvents[i].try = hTry
              /\ hMethod \in {0, 1}
              /\ hStatus < 600
              /\ hLength > 0

\* a GET has returned a body: HTTPPARA, HTTPACTION and HTTPREAD were written
\* in this order
C35_Witness ==
    /\ hPc = "done" /\ hMethod = 0
    /\ hResult.kind = "response" /\ hResult.data # <<>>
    /\ Len(hEvents) = 3
    /\ hEvents[1].kind = "params" /\ hEvents[2].kind = "action"
    /\ hEvents[3].kind = "httpread"


\* ------------------------------------------------------------------------
\* C36: readAll() on replies whose message texts read like result codes
\* (SpecPure)

\* the messages of a reply: <<index, body lines>> for every headline with
\* five fields, the body lines being the lines up to the next headline
RECURSIVE SentFrom(_, _, _)
SentFrom(lines, done, cur) ==
    LET closed == IF cur = NoEntry THEN done ELSE done \cup {cur}
    IN  IF lines = <<>> THEN closed
        ELSE LET line == Head(lines)
                 fields == SplitOn(line, T_SEP)
             IN  IF StartsWith(line, T_CMGL_PREFIX) /\ Len(fields) = 5
                 THEN SentFrom(Tail(lines), closed,
                               <<SubSeq(fields[1], Len(T_CMGL_PREFIX) + 1,
                                        Len(fields[1])), <<>>>>)
                 ELSE IF cur = NoEntry THEN SentFrom(Tail(lines), done, cur)
                 ELSE SentFrom(Tail(lines), done,
                               <<cur[1], Append(cur[2], line)>>)

\* the messages the modem sent before the terminating OK, its last line
SentMessages(reply) ==
    LET lines == ReceivedLines(reply)
    IN  SentFrom(SubSeq(lines, 1, Len(lines) - 1), {}, NoEntry)

\* C36: readAll() returns one entry for every message headline the modem
\* sent before the terminating OK, keyed by the index, and every non-empty
\* line between a headline and the next headline or the terminating OK is
\* part of the text of that entry, whatever the text is
C36_ReadAllKeepsEveryLine ==
    pPc = "readall" =>
        /\ {pParsed[i][1] : i \in 1..Len(pParsed)}
               = {m[1] : m \in SentMessages(pR)}
        /\ \A m \in SentMessages(pR) : \A i \in 1..Len(pParsed) :
               pParsed[i][1] = m[1] =>
                   \A k \in 1..Len(m[2]) : Contains(pParsed[i][6], m[2][k])


\* ------------------------------------------------------------------------
\* C37: the bytes after the body (SpecHTTP)

\* C37: once the body read has returned a body, no byte of the reply to
\* AT+HTTPREAD (the CRLF and OK after the body) is left in the serial input,
\* where the read of a later command would take it
C37_NoReplyByteLeft ==
    (hPc = "done" /\ hResult.kind = "response" /\ hResult.data # <<>>)
        => hStream = <<>>

\* ------------------------------------------------------------------------
\* C38: replies that come late (SpecLate)

LateInit ==
    /\ LockInit
    /\ useFile = [p \in Procs |-> TRUE]
    /\ procOf = [t \in Threads |-> "A"]
    /\ AtIdle
    /\ HttpIdle
    /\ SessIdle
    /\ ConcIdle
    /\ SmsIdle
    /\ PureIdle
    /\ OpsIdle
    /\ RegIdle
    /\ LateIdle

LateNext == LCall \/ LSend \/ LArrive \/ LReadLine \/ LExpire

SpecLate == LateInit /\ [][LateNext]_vars

\* C38: every Response command() returns consists of lines the modem
\* produced in reply to the write of the attempt that returned it; a reply
\* that arrives after its attempt timed out is not returned as the reply of
\* a retry or of a later command
C38_ResponseIsOwnReply ==
    lResp.kind = "response" =>
        \A i \in 1..Len(lResp.lines) : lResp.lines[i][1] = lResp.send


\* ------------------------------------------------------------------------
\* C40: an entry that fails with the bearer open (SpecSession)

\* the steps of http.init(), which follow gprs.open()
HttpInitSteps == {i \in 1..Len(EnterScript) : EnterScript[i].stage = 8}

\* C40: when __enter__ raises after the bearer has been opened (HTTP init
\* raises), AT+HTTPTERM and AT+SAPBR=0,1 have been sent as cleanup by the
\* time the error reaches the caller, with Device.session(...) as with
\* SIM800Session used directly as a context manager
C40_FailedEntryCleansUp ==
    (sPhase = "out" /\ sOutcome = "raised" /\ sRaisedAt \in HttpInitSteps)
        => \E i, j \in 1..Len(ExitLog) :
              /\ i < j
              /\ ExitLog[i].cmd = "AT+HTTPTERM"
              /\ ExitLog[j].cmd = "AT+SAPBR=0,1"


\* ------------------------------------------------------------------------
\* C39: the URC of a request and the commands of the other thread (SpecConc)

\* C39: with two threads on one channel, the +HTTPACTION URC of a caller's
\* request reaches that caller's wait_for_urc: from the OK of its
\* AT+HTTPACTION until its wait has read a line, the URC is still to come or
\* waits in the input, and no command of the other thread consumes it
C39_UrcReachesItsCaller ==
    \A t \in Callers :
        qPc[t] = "urc" =>
            \/ dFetch.by = t
            \/ \E i \in 1..Len(cRx) : cRx[i].by = t

====
